---- MODULE Spec2Model ----
(***************************************************************************)
(* The validated transaction pool (ValidatedPool) of                       *)
(* substrate/client/transaction-pool/src/graph/validated_pool.rs.          *)
(*                                                                         *)
(* The validated pool binds three collaborators: the base pool (ready and  *)
(* future partitions), the rotator (ban list) and the event dispatcher     *)
(* (watchers).  Their sources are base_pool.rs, rotator.rs and listener.rs;*)
(* the operators that stand for them follow the design document            *)
(* (sections 4.B, 4.R, 4.E).  Everything else follows validated_pool.rs.   *)
(***************************************************************************)
EXTENDS Naturals, Integers, Sequences, FiniteSets, TLC

VARIABLES
    pool,       \* base pool: [ready, future, consumed, reject_future]
    banned,     \* rotator: the set of banned hashes
    sinks,      \* import_notification_sinks: sequence of [open, buf]
    watchers,   \* event dispatcher registry: sequence of [id, hash, recv, held, closed]
    events,     \* the events dispatched by the call recorded in `last`
    last,       \* the last completed call: operation, input, results, pre-state
    thr         \* concurrent callers: per thread position inside submit

vars == <<pool, banned, sinks, watchers, events, last, thr>>

-----------------------------------------------------------------------------
(* Bounds of the model.                                                     *)

\* longest batch handed to submit
MaxBatch == 2
\* options.ready = {count, total_bytes}
ReadyCount == 2
ReadyBytes == 2
\* options.future = {count, total_bytes}
FutureCount == 1
FutureBytes == 2
\* registered import-notification sinks, and the buffer of each
MaxSinks == 2
SinkBuffer == 1
\* watchers registered at the same time
MaxWatchers == 1
\* longest batch a concurrent caller hands to submit
ConcBatch == 1
\* highest block number handed to clear_stale
MaxBlock == 3
\* longest list of pruned transactions, and of known imported hashes, handed
\* to resubmit_pruned
MaxPruned == 2
\* transactions one call walks through while it takes a lock for each
MaxLoop == 1

-----------------------------------------------------------------------------
(* Transactions.  A record is immutable; the pool stores whole records.     *)

Tags == {"x", "y"}

Tx(h, b, p, req, prov, prop, till) ==
    [hash |-> h, data |-> 100 + h, bytes |-> b, priority |-> p,
     requires |-> req, provides |-> prov, propagate |-> prop,
     valid_till |-> till]

\* t1 and t2 compete for tag x; t3 depends on x; t4 depends on y and competes
\* for x, which closes a cycle through t3.
T1 == Tx(1, 1, 5, {}, {"x"}, TRUE, 1)
T2 == Tx(2, 2, 10, {}, {"x"}, TRUE, 2)
T3 == Tx(3, 1, 12, {"x"}, {"y"}, FALSE, 2)
T4 == Tx(4, 1, 7, {"y"}, {"x"}, TRUE, 1)

Catalogue == {T1, T2, T3, T4}
Hashes == {t.hash : t \in Catalogue}

\* ChainApi::hash_and_length(data).0
HashOf(data) == data - 100

-----------------------------------------------------------------------------
(* Sequence helpers.                                                        *)

Range(s) == {s[i] : i \in DOMAIN s}

HashesOf(s) == {s[i].hash : i \in DOMAIN s}

RECURSIVE SumBytes(_)
SumBytes(s) == IF s = <<>> THEN 0 ELSE Head(s).bytes + SumBytes(Tail(s))

RECURSIVE MapHash(_)
MapHash(s) == IF s = <<>> THEN <<>> ELSE <<Head(s).hash>> \o MapHash(Tail(s))

Without(s, hs) == SelectSeq(s, LAMBDA r : r.hash \notin hs)

Only(s, hs) == SelectSeq(s, LAMBDA r : r.hash \in hs)

MaxPriority(s) ==
    CHOOSE p \in {s[i].priority : i \in DOMAIN s} :
        \A i \in DOMAIN s : s[i].priority <= p

\* index of the lowest-priority record, the oldest one on a tie
WorstIndex(s) ==
    CHOOSE i \in DOMAIN s :
        /\ \A j \in DOMAIN s : s[i].priority <= s[j].priority
        /\ \A j \in DOMAIN s : s[j].priority = s[i].priority => i <= j

\* index of the highest-priority record, the oldest one on a tie
BestIndex(s) ==
    CHOOSE i \in DOMAIN s :
        /\ \A j \in DOMAIN s : s[i].priority >= s[j].priority
        /\ \A j \in DOMAIN s : s[j].priority = s[i].priority => i <= j

-----------------------------------------------------------------------------
(* Base pool (design document 4.B).                                         *)

EmptyPool(reject) ==
    [ready |-> <<>>, future |-> <<>>, consumed |-> {}, reject_future |-> reject]

IsImported(p, h) == h \in HashesOf(p.ready) \cup HashesOf(p.future)

ProvidedTags(ready) == UNION {ready[i].provides : i \in DOMAIN ready}

\* step 2 of the import algorithm
Satisfied(p, tx) == tx.requires \subseteq (ProvidedTags(p.ready) \cup p.consumed)

\* status()
Status(p) ==
    [ready |-> Len(p.ready), ready_bytes |-> SumBytes(p.ready),
     future |-> Len(p.future), future_bytes |-> SumBytes(p.future)]

\* a limit {count, total_bytes} is exceeded
IsExceeded(limit, count, bytes) == count > limit.count \/ bytes > limit.total_bytes

\* the ready records that (transitively) require one of `tags`: the
\* descendants of the records that provided them
RECURSIVE Cascade(_, _)
Cascade(ready, tags) ==
    LET Go(hit) ==
            IF hit = <<>> THEN <<>>
            ELSE hit \o Cascade(Without(ready, HashesOf(hit)), ProvidedTags(hit))
    IN  Go(SelectSeq(ready, LAMBDA r : r.requires \cap tags # {}))

\* InsertReady with the newcomer accepted whatever its priority
InsertReadyAnyPriority(p, tx) ==
    LET Replace(usurped, broken) ==
            [ok |-> TRUE,
             pool |-> [p EXCEPT !.ready =
                         Append(Without(@, HashesOf(usurped) \cup HashesOf(broken)), tx)],
             removed |-> usurped, failed |-> broken]
        Usurp(usurped) ==
            Replace(usurped,
                    Cascade(Without(p.ready, HashesOf(usurped)), ProvidedTags(usurped)))
    IN  Usurp(SelectSeq(p.ready, LAMBDA r : r.provides \cap tx.provides # {}))

\* steps 4-6: usurp the ready providers of tx's tags, drop their descendants,
\* insert tx into ready
InsertReady(p, tx) ==
    LET Replace(usurped, broken) ==
            IF usurped # <<>> /\ tx.priority <= MaxPriority(usurped)
            THEN [ok |-> FALSE, pool |-> p, removed |-> <<>>, failed |-> <<>>]
            ELSE [ok |-> TRUE,
                  pool |-> [p EXCEPT !.ready =
                              Append(Without(@, HashesOf(usurped) \cup HashesOf(broken)), tx)],
                  removed |-> usurped, failed |-> broken]
        Usurp(usurped) ==
            Replace(usurped,
                    Cascade(Without(p.ready, HashesOf(usurped)), ProvidedTags(usurped)))
    IN  Usurp(SelectSeq(p.ready, LAMBDA r : r.provides \cap tx.provides # {}))

\* step 7: promote the future records whose requirements are met, best first,
\* until none is left; a promotion that loses the priority rule fails
RECURSIVE Promote(_)
Promote(st) ==
    LET Step(tx, ins) ==
            IF ins.ok
            THEN [pool |-> ins.pool,
                  promoted |-> Append(st.promoted, tx.hash),
                  failed |-> st.failed \o MapHash(ins.failed),
                  removed |-> st.removed \o ins.removed]
            ELSE [st EXCEPT !.pool.future = Without(@, {tx.hash}),
                            !.failed = Append(@, tx.hash)]
        Take(tx) ==
            Step(tx, InsertReady([st.pool EXCEPT !.future = Without(@, {tx.hash})], tx))
        Go(cand) == IF cand = <<>> THEN st ELSE Promote(Take(cand[BestIndex(cand)]))
    IN  Go(SelectSeq(st.pool.future, LAMBDA r : Satisfied(st.pool, r)))

ImportErr(p, e) ==
    [ok |-> FALSE, err |-> e, kind |-> "None", hash |-> 0, promoted |-> <<>>,
     failed |-> <<>>, removed |-> <<>>, pool |-> p]

\* Import without the test for a hash that is present already
ImportPresent(p, tx) ==
    IF ~Satisfied(p, tx)
    THEN IF p.reject_future THEN ImportErr(p, "RejectedFutureTransaction")
         ELSE [ok |-> TRUE, err |-> "", kind |-> "Future", hash |-> tx.hash,
               promoted |-> <<>>, failed |-> <<>>, removed |-> <<>>,
               pool |-> [p EXCEPT !.future = Append(@, tx)]]
    ELSE LET Done(st) ==
                 IF tx.hash \notin HashesOf(st.pool.ready)
                 THEN ImportErr(p, "CycleDetected")
                 ELSE [ok |-> TRUE, err |-> "", kind |-> "Ready",
                       hash |-> tx.hash, promoted |-> st.promoted,
                       failed |-> st.failed, removed |-> st.removed,
                       pool |-> st.pool]
             Inserted(ins) ==
                 IF ~ins.ok THEN ImportErr(p, "TooLowPriority")
                 ELSE Done(Promote([pool |-> ins.pool, promoted |-> <<>>,
                                    failed |-> MapHash(ins.failed),
                                    removed |-> ins.removed]))
         IN  Inserted(InsertReady(p, tx))

\* import(tx)
Import(p, tx) ==
    IF IsImported(p, tx.hash) THEN ImportErr(p, "AlreadyImported")
    ELSE IF ~Satisfied(p, tx)
    THEN IF p.reject_future THEN ImportErr(p, "RejectedFutureTransaction")
         ELSE [ok |-> TRUE, err |-> "", kind |-> "Future", hash |-> tx.hash,
               promoted |-> <<>>, failed |-> <<>>, removed |-> <<>>,
               pool |-> [p EXCEPT !.future = Append(@, tx)]]
    ELSE LET Done(st) ==
                 IF tx.hash \notin HashesOf(st.pool.ready)
                 THEN ImportErr(p, "CycleDetected")
                 ELSE [ok |-> TRUE, err |-> "", kind |-> "Ready",
                       hash |-> tx.hash, promoted |-> st.promoted,
                       failed |-> st.failed, removed |-> st.removed,
                       pool |-> st.pool]
             Inserted(ins) ==
                 IF ~ins.ok THEN ImportErr(p, "TooLowPriority")
                 ELSE Done(Promote([pool |-> ins.pool, promoted |-> <<>>,
                                    failed |-> MapHash(ins.failed),
                                    removed |-> ins.removed]))
         IN  Inserted(InsertReady(p, tx))

\* an Imported value as the base pool returns it
ImportedOf(imp) ==
    [kind |-> imp.kind, hash |-> imp.hash, promoted |-> imp.promoted,
     failed |-> imp.failed, removed |-> imp.removed]

\* prune_tags: the unlocked future records are imported into ready, one
\* after the other; an import the priority rule refuses is reported as failed
RECURSIVE ImportUnlocked(_, _)
ImportUnlocked(st, todo) ==
    IF todo = <<>> THEN st
    ELSE LET Took(imp) ==
                 IF imp.ok
                 THEN [st EXCEPT !.pool = imp.pool,
                                 !.promoted = Append(@, ImportedOf(imp))]
                 ELSE [st EXCEPT !.failed = Append(@, Head(todo).hash)]
         IN  ImportUnlocked(Took(Import(st.pool, Head(todo))), Tail(todo))

\* BasePruneTags with the records whose promotion failed left in future
BasePruneTagsKeepFailed(p, tags) ==
    LET Keep(st) ==
            [st EXCEPT !.pool.future = @ \o Only(p.future, Range(st.failed))]
        Unlock(p1, todo) ==
            Keep(ImportUnlocked(
                    [pool |-> [p1 EXCEPT !.future = Without(@, HashesOf(todo))],
                     promoted |-> <<>>, failed |-> <<>>,
                     pruned |-> SelectSeq(p.ready, LAMBDA r : r.provides \cap tags # {})],
                    todo))
        Pruned(p1) == Unlock(p1, SelectSeq(p1.future, LAMBDA r : Satisfied(p1, r)))
    IN  Pruned([p EXCEPT !.consumed = @ \cup tags,
                         !.ready = SelectSeq(@, LAMBDA r : r.provides \cap tags = {})])

\* prune_tags(tags): the tags are marked as consumed, the ready records that
\* provide one of them are pruned, the future records they unlock are taken
\* out of future and imported
BasePruneTags(p, tags) ==
    LET Unlock(p1, todo) ==
            ImportUnlocked([pool |-> [p1 EXCEPT !.future = Without(@, HashesOf(todo))],
                            promoted |-> <<>>, failed |-> <<>>,
                            pruned |-> SelectSeq(p.ready,
                                                 LAMBDA r : r.provides \cap tags # {})],
                           todo)
        Pruned(p1) == Unlock(p1, SelectSeq(p1.future, LAMBDA r : Satisfied(p1, r)))
    IN  Pruned([p EXCEPT !.consumed = @ \cup tags,
                         !.ready = SelectSeq(@, LAMBDA r : r.provides \cap tags = {})])

\* remove_subtree(hashes): the named records and the ready descendants
BaseRemoveSubtree(p, hs) ==
    LET Cut(roots, broken) ==
            [pool |-> [p EXCEPT !.ready = Without(@, hs \cup HashesOf(broken)),
                                !.future = Without(@, hs)],
             removed |-> roots \o broken \o Only(p.future, hs)]
        From(roots) == Cut(roots, Cascade(Without(p.ready, hs), ProvidedTags(roots)))
    IN  From(Only(p.ready, hs))

\* enforce_limits(ready_limit, future_limit): evict the worst record until
\* both caps are respected
RECURSIVE EnforceReady(_, _, _)
EnforceReady(p, limit, removed) ==
    IF ~IsExceeded(limit, Len(p.ready), SumBytes(p.ready))
    THEN [pool |-> p, removed |-> removed]
    ELSE LET Evicted(r) == EnforceReady(r.pool, limit, removed \o r.removed)
         IN  Evicted(BaseRemoveSubtree(p, {p.ready[WorstIndex(p.ready)].hash}))

RECURSIVE EnforceFuture(_, _, _)
EnforceFuture(p, limit, removed) ==
    IF ~IsExceeded(limit, Len(p.future), SumBytes(p.future))
    THEN [pool |-> p, removed |-> removed]
    ELSE LET Evict(worst) ==
                 EnforceFuture([p EXCEPT !.future = Without(@, {worst.hash})],
                               limit, Append(removed, worst))
         IN  Evict(p.future[WorstIndex(p.future)])

BaseEnforceLimits(p, ready_limit, future_limit) ==
    LET Then(r) == EnforceFuture(r.pool, future_limit, r.removed)
    IN  Then(EnforceReady(p, ready_limit, <<>>))

-----------------------------------------------------------------------------
(* Rotator (4.R) and event dispatcher (4.E).                                *)

\* PoolRotator::ban
Ban(b, hs) == b \cup hs

Ev(e, h) == [ev |-> e, h |-> h, by |-> 0]

EvBy(e, h, by) == [ev |-> e, h |-> h, by |-> by]

Terminal == {"finalized", "usurped", "dropped", "invalid", "limits_enforced"}

\* Deliver with the watcher left open by a terminal event
DeliverKeepOpen(ws, e) ==
    LET Send(kept) ==
            [i \in DOMAIN kept |->
                IF kept[i].hash = e.h /\ ~kept[i].closed
                THEN [kept[i] EXCEPT !.recv = Append(@, e)]
                ELSE kept[i]]
    IN  Send(SelectSeq(ws, LAMBDA x : ~(x.hash = e.h /\ ~x.held /\ ~x.closed)))

\* one event: recorded, and sent to every watcher of its hash.  A watcher
\* whose receiver is gone (not held) is dropped from the registry by the send;
\* a terminal event closes the watcher, which then receives nothing more.
Deliver(ws, e) ==
    LET Send(kept) ==
            [i \in DOMAIN kept |->
                IF kept[i].hash = e.h /\ ~kept[i].closed
                THEN [kept[i] EXCEPT !.recv = Append(@, e),
                                     !.closed = e.ev \in Terminal]
                ELSE kept[i]]
    IN  Send(SelectSeq(ws, LAMBDA x : ~(x.hash = e.h /\ ~x.held /\ ~x.closed)))

Dispatch(w, e) ==
    [w EXCEPT !.events = Append(@, e), !.watchers = Deliver(@, e)]

RECURSIVE DispatchAll(_, _)
DispatchAll(w, es) ==
    IF es = <<>> THEN w ELSE DispatchAll(Dispatch(w, Head(es)), Tail(es))

RECURSIVE EvSeq(_, _)
EvSeq(e, hs) == IF hs = <<>> THEN <<>> ELSE <<Ev(e, Head(hs))>> \o EvSeq(e, Tail(hs))

RECURSIVE EvBySeq(_, _, _)
EvBySeq(e, hs, by) ==
    IF hs = <<>> THEN <<>> ELSE <<EvBy(e, Head(hs), by)>> \o EvBySeq(e, Tail(hs), by)

\* the smallest watcher id not in use
FreshId(ws) == CHOOSE i \in 1..(Len(ws) + 1) : \A k \in DOMAIN ws : ws[k].id # i

\* EventDispatcher::create_watcher
CreateWatcher(w, h) ==
    [w EXCEPT !.watchers =
        Append(@, [id |-> FreshId(@), hash |-> h, recv |-> <<>>,
                   held |-> TRUE, closed |-> FALSE])]

-----------------------------------------------------------------------------
(* Validated pool (validated_pool.rs).  A world w is the pool's state:      *)
(* [pool, banned, sinks, watchers, events].                                 *)

ReadyLimit == [count |-> ReadyCount, total_bytes |-> ReadyBytes]

FutureLimit == [count |-> FutureCount, total_bytes |-> FutureBytes]

\* ValidatedTransaction
Valid(tx) == [kind |-> "Valid", tx |-> tx, hash |-> tx.hash, err |-> ""]

Invalid(h, e) == [kind |-> "Invalid", tx |-> T1, hash |-> h, err |-> e]

Unknown(h, e) == [kind |-> "Unknown", tx |-> T1, hash |-> h, err |-> e]

\* Result<ValidatedPoolSubmitOutcome, Error>
Ok(h, prio) == [ok |-> TRUE, hash |-> h, priority |-> prio, err |-> "", watcher |-> 0]

Err(e) == [ok |-> FALSE, hash |-> 0, priority |-> 0, err |-> e, watcher |-> 0]

NoImport == ImportErr(EmptyPool(FALSE), "")

\* PoolRotator::is_banned
IsBanned(b, h) == h \in b

\* CheckIsKnown with the pool looked at before the ban list
CheckIsKnownPoolFirst(w, tx_hash, ignore_banned) ==
    IF IsImported(w.pool, tx_hash) THEN Err("AlreadyImported")
    ELSE IF ~ignore_banned /\ IsBanned(w.banned, tx_hash) THEN Err("TemporarilyBanned")
    ELSE Ok(0, 0)

\* check_is_known; Ok(()) is the outcome Ok that carries nothing
CheckIsKnown(w, tx_hash, ignore_banned) ==
    IF ~ignore_banned /\ IsBanned(w.banned, tx_hash) THEN Err("TemporarilyBanned")
    ELSE IF IsImported(w.pool, tx_hash) THEN [Err("AlreadyImported") EXCEPT !.hash = tx_hash]
    ELSE Ok(0, 0)

\* SubmitOneImport with the Invalid arm reporting to the watchers instead of
\* banning, and the Unknown arm banning as well
SubmitOneImportSwapped(w, v, isv) ==
    CASE v.kind = "Valid" ->
            IF ~v.tx.propagate /\ ~isv
            THEN [w |-> w, res |-> Err("Unactionable"), imported |-> NoImport]
            ELSE LET Imported(imp) ==
                         IF ~imp.ok
                         THEN [w |-> w, res |-> Err(imp.err), imported |-> NoImport]
                         ELSE [w |-> [w EXCEPT !.pool = imp.pool],
                               res |-> Ok(imp.hash, v.tx.priority), imported |-> imp]
                 IN  Imported(Import(w.pool, v.tx))
      [] v.kind = "Invalid" ->
            [w |-> Dispatch(w, Ev("invalid", v.hash)),
             res |-> Err(v.err), imported |-> NoImport]
      [] v.kind = "Unknown" ->
            [w |-> [Dispatch(w, Ev("invalid", v.hash)) EXCEPT !.banned = Ban(@, {v.hash})],
             res |-> Err(v.err), imported |-> NoImport]

\* SubmitOneImport without the validator gate
SubmitOneImportNoGate(w, v, isv) ==
    CASE v.kind = "Valid" ->
            LET Imported(imp) ==
                    IF ~imp.ok
                    THEN [w |-> w, res |-> Err(imp.err), imported |-> NoImport]
                    ELSE [w |-> [w EXCEPT !.pool = imp.pool],
                          res |-> Ok(imp.hash, v.tx.priority), imported |-> imp]
            IN  Imported(Import(w.pool, v.tx))
      [] v.kind = "Invalid" ->
            [w |-> [w EXCEPT !.banned = Ban(@, {v.hash})],
             res |-> Err(v.err), imported |-> NoImport]
      [] v.kind = "Unknown" ->
            [w |-> Dispatch(w, Ev("invalid", v.hash)),
             res |-> Err(v.err), imported |-> NoImport]

\* SubmitOneImport with a failed import treated as an invalid transaction:
\* banned and reported
SubmitOneImportBanFailed(w, v, isv) ==
    CASE v.kind = "Valid" ->
            IF ~v.tx.propagate /\ ~isv
            THEN [w |-> w, res |-> Err("Unactionable"), imported |-> NoImport]
            ELSE LET Imported(imp) ==
                         IF ~imp.ok
                         THEN [w |-> [Dispatch(w, Ev("invalid", v.hash))
                                          EXCEPT !.banned = Ban(@, {v.hash})],
                               res |-> Err(imp.err), imported |-> NoImport]
                         ELSE [w |-> [w EXCEPT !.pool = imp.pool],
                               res |-> Ok(imp.hash, v.tx.priority), imported |-> imp]
                 IN  Imported(Import(w.pool, v.tx))
      [] v.kind = "Invalid" ->
            [w |-> [w EXCEPT !.banned = Ban(@, {v.hash})],
             res |-> Err(v.err), imported |-> NoImport]
      [] v.kind = "Unknown" ->
            [w |-> Dispatch(w, Ev("invalid", v.hash)),
             res |-> Err(v.err), imported |-> NoImport]

\* submit_one up to the import: the validator gate and pool.write().import(tx)
\* for a Valid verdict, the whole arm for Invalid and Unknown
SubmitOneImport(w, v, isv) ==
    CASE v.kind = "Valid" ->
            IF ~v.tx.propagate /\ ~isv
            THEN [w |-> w, res |-> Err("Unactionable"), imported |-> NoImport]
            ELSE LET Imported(imp) ==
                         IF ~imp.ok
                         THEN [w |-> w, res |-> Err(imp.err), imported |-> NoImport]
                         ELSE [w |-> [w EXCEPT !.pool = imp.pool],
                               res |-> Ok(imp.hash, v.tx.priority), imported |-> imp]
                 IN  Imported(Import(w.pool, v.tx))
      [] v.kind = "Invalid" ->
            [w |-> [w EXCEPT !.banned = Ban(@, {v.hash})],
             res |-> Err(v.err), imported |-> NoImport]
      [] v.kind = "Unknown" ->
            [w |-> Dispatch(w, Ev("invalid", v.hash)),
             res |-> Err(v.err), imported |-> NoImport]

\* RetainSend with a sink that is full dropped like a closed one
RECURSIVE RetainSendDropFull(_, _)
RetainSendDropFull(ss, h) ==
    IF ss = <<>> THEN <<>>
    ELSE IF ~Head(ss).open \/ Len(Head(ss).buf) >= SinkBuffer
         THEN RetainSendDropFull(Tail(ss), h)
         ELSE <<[Head(ss) EXCEPT !.buf = Append(@, h)]>> \o RetainSendDropFull(Tail(ss), h)

\* sink.try_send(hash): a closed sink fails and is dropped, a full one fails
\* and is kept, any other takes the hash
TrySend(sink, h) ==
    IF ~sink.open \/ Len(sink.buf) >= SinkBuffer THEN sink
    ELSE [sink EXCEPT !.buf = Append(@, h)]

RECURSIVE RetainSend(_, _)
RetainSend(ss, h) ==
    IF ss = <<>> THEN <<>>
    ELSE IF ~Head(ss).open THEN RetainSend(Tail(ss), h)
         ELSE <<TrySend(Head(ss), h)>> \o RetainSend(Tail(ss), h)

\* submit_one: the import notification of a Ready import
NotifySinks(w, imp) ==
    IF imp.kind = "Ready" THEN [w EXCEPT !.sinks = RetainSend(@, imp.hash)] ELSE w

\* FireEvents with the promoted transactions announced before the usurped and
\* the failed ones
FireEventsPromotedFirst(w, imp) ==
    CASE imp.kind = "Ready" ->
            DispatchAll(w, <<Ev("ready", imp.hash)>>
                           \o EvSeq("ready", imp.promoted)
                           \o EvBySeq("usurped", MapHash(imp.removed), imp.hash)
                           \o EvSeq("invalid", imp.failed))
      [] imp.kind = "Future" -> Dispatch(w, Ev("future", imp.hash))
      [] OTHER -> w

\* fire_events
FireEvents(w, imp) ==
    CASE imp.kind = "Ready" ->
            DispatchAll(w, <<Ev("ready", imp.hash)>>
                           \o EvSeq("invalid", imp.failed)
                           \o EvBySeq("usurped", MapHash(imp.removed), imp.hash)
                           \o EvSeq("ready", imp.promoted))
      [] imp.kind = "Future" -> Dispatch(w, Ev("future", imp.hash))
      [] OTHER -> w

\* submit_one
SubmitOne(w, v, isv) ==
    LET Rest(s) ==
            IF s.imported.ok
            THEN [w |-> FireEvents(NotifySinks(s.w, s.imported), s.imported),
                  res |-> s.res]
            ELSE [w |-> s.w, res |-> s.res]
    IN  Rest(SubmitOneImport(w, v, isv))

\* LimitsExceeded looking at the ready partition alone
LimitsExceededReadyOnly(w) ==
    LET Over(st) == IsExceeded(ReadyLimit, st.ready, st.ready_bytes)
    IN  Over(Status(w.pool))

\* enforce_limits: the status check
LimitsExceeded(w) ==
    LET Over(st) ==
            \/ IsExceeded(ReadyLimit, st.ready, st.ready_bytes)
            \/ IsExceeded(FutureLimit, st.future, st.future_bytes)
    IN  Over(Status(w.pool))

\* EnforceEvict without the ban
EnforceEvictUnbanned(w) ==
    LET Evicted(r) ==
            [w |-> [w EXCEPT !.pool = r.pool], removed |-> MapHash(r.removed)]
    IN  Evicted(BaseEnforceLimits(w.pool, ReadyLimit, FutureLimit))

\* enforce_limits: the eviction and the ban, under the pool's write lock
EnforceEvict(w) ==
    LET Evicted(r) ==
            [w |-> [w EXCEPT !.pool = r.pool, !.banned = Ban(@, HashesOf(r.removed))],
             removed |-> MapHash(r.removed)]
    IN  Evicted(BaseEnforceLimits(w.pool, ReadyLimit, FutureLimit))

\* enforce_limits: the notifications
EnforceNotify(w, removed) == DispatchAll(w, EvSeq("limits_enforced", removed))

\* enforce_limits
EnforceLimits(w) ==
    IF LimitsExceeded(w)
    THEN LET Notified(e) == [w |-> EnforceNotify(e.w, e.removed), removed |-> e.removed]
         IN  Notified(EnforceEvict(w))
    ELSE [w |-> w, removed |-> <<>>]

\* SubmitEach with the batch abandoned at the first element that fails
RECURSIVE SubmitEachAbort(_, _, _)
SubmitEachAbort(w, batch, isv) ==
    IF batch = <<>> THEN [w |-> w, results |-> <<>>, steps |-> <<w>>]
    ELSE LET Join(one, rest) ==
                 [w |-> rest.w, results |-> <<one.res>> \o rest.results,
                  steps |-> <<w>> \o rest.steps]
             After(one) ==
                 Join(one, IF one.res.ok THEN SubmitEachAbort(one.w, Tail(batch), isv)
                           ELSE [w |-> one.w, results |-> <<>>, steps |-> <<one.w>>])
         IN  After(SubmitOne(w, Head(batch), isv))

\* submit: the per-element part; steps[i] is the world element i started in
RECURSIVE SubmitEach(_, _, _)
SubmitEach(w, batch, isv) ==
    IF batch = <<>> THEN [w |-> w, results |-> <<>>, steps |-> <<w>>]
    ELSE LET Join(one, rest) ==
                 [w |-> rest.w, results |-> <<one.res>> \o rest.results,
                  steps |-> <<w>> \o rest.steps]
             After(one) == Join(one, SubmitEach(one.w, Tail(batch), isv))
         IN  After(SubmitOne(w, Head(batch), isv))

AnyOk(results) == \E i \in DOMAIN results : results[i].ok

\* Rewrite with the evicted outcomes left as they are
RewriteNothing(results, removed) == results

\* submit: the rewriting of the evicted outcomes
Rewrite(results, removed) ==
    [i \in DOMAIN results |->
        IF results[i].ok /\ results[i].hash \in Range(removed)
        THEN Err("ImmediatelyDropped") ELSE results[i]]

\* Submit with every outcome rewritten whose transaction is out of the pool
\* when the call returns
SubmitRewriteAbsent(w, batch, isv) ==
    LET Absent(each, enf) ==
            [i \in DOMAIN each.results |->
                IF each.results[i].ok /\ ~IsImported(enf.w.pool, each.results[i].hash)
                THEN Err("ImmediatelyDropped") ELSE each.results[i]]
        Finish(each, enf) ==
            [w |-> enf.w, results |-> Absent(each, enf),
             raw |-> each.results, removed |-> enf.removed,
             steps |-> each.steps, enforced |-> AnyOk(each.results)]
        Enforce(each) ==
            Finish(each, IF AnyOk(each.results) THEN EnforceLimits(each.w)
                         ELSE [w |-> each.w, removed |-> <<>>])
    IN  Enforce(SubmitEach(w, batch, isv))

\* submit
Submit(w, batch, isv) ==
    LET Finish(each, enf) ==
            [w |-> enf.w, results |-> Rewrite(each.results, enf.removed),
             raw |-> each.results, removed |-> enf.removed,
             steps |-> each.steps, enforced |-> AnyOk(each.results)]
        Enforce(each) ==
            Finish(each, IF AnyOk(each.results) THEN EnforceLimits(each.w)
                         ELSE [w |-> each.w, removed |-> <<>>])
    IN  Enforce(SubmitEach(w, batch, isv))

\* prune_tags: fire_events for every promoted entry
RECURSIVE FireAll(_, _)
FireAll(w, imps) ==
    IF imps = <<>> THEN w ELSE FireAll(FireEvents(w, Head(imps)), Tail(imps))

\* PruneTags with the failed promotions passed over in silence
PruneTagsSilentFailed(w, tags) ==
    LET Notify(st) ==
            [w |-> FireAll([w EXCEPT !.pool = st.pool], st.promoted),
             status |-> [promoted |-> st.promoted, failed |-> st.failed,
                         pruned |-> st.pruned]]
    IN  Notify(BasePruneTags(w.pool, tags))

\* PruneTags with every promoted hash sent to the import-notification sinks
PruneTagsAnnounced(w, tags) ==
    LET RECURSIVE Announce(_, _)
        Announce(ss, imps) ==
            IF imps = <<>> THEN ss
            ELSE Announce(RetainSend(ss, Head(imps).hash), Tail(imps))
        Notify(st) ==
            [w |-> DispatchAll(FireAll([w EXCEPT !.pool = st.pool,
                                                 !.sinks = Announce(@, st.promoted)],
                                       st.promoted),
                               EvSeq("dropped", st.failed)),
             status |-> [promoted |-> st.promoted, failed |-> st.failed, pruned |-> st.pruned]]
    IN  Notify(BasePruneTags(w.pool, tags))

\* prune_tags
PruneTags(w, tags) ==
    LET Notify(st) ==
            [w |-> DispatchAll(FireAll([w EXCEPT !.pool = st.pool], st.promoted),
                               EvSeq("dropped", st.failed)),
             status |-> [promoted |-> st.promoted, failed |-> st.failed,
                         pruned |-> st.pruned]]
    IN  Notify(BasePruneTags(w.pool, tags))

\* RemoveSubtree with the event dispatched for the named hashes only, not for
\* the descendants removed with them
RemoveSubtreeRootsOnly(w, hs, ban, e) ==
    LET Removed(r) ==
            [w |-> DispatchAll([w EXCEPT !.pool = r.pool,
                                         !.banned = IF ban THEN Ban(@, hs) ELSE @],
                               EvSeq(e, MapHash(Only(r.removed, hs)))),
             removed |-> r.removed]
    IN  Removed(BaseRemoveSubtree(w.pool, hs))

\* RemoveSubtree with the ban put on the removed transactions instead of the
\* named hashes
RemoveSubtreeBanRemoved(w, hs, ban, e) ==
    LET Removed(r) ==
            [w |-> DispatchAll([w EXCEPT !.pool = r.pool,
                                         !.banned = IF ban THEN Ban(@, HashesOf(r.removed))
                                                    ELSE @],
                               EvSeq(e, MapHash(r.removed))),
             removed |-> r.removed]
    IN  Removed(BaseRemoveSubtree(w.pool, hs))

\* remove_subtree(hashes, ban_transactions, event_dispatcher_action): the
\* action dispatches the event `e` for every removed transaction
RemoveSubtree(w, hs, ban, e) ==
    LET Removed(r) ==
            [w |-> DispatchAll([w EXCEPT !.pool = r.pool,
                                         !.banned = IF ban THEN Ban(@, hs) ELSE @],
                               EvSeq(e, MapHash(r.removed))),
             removed |-> r.removed]
    IN  Removed(BaseRemoveSubtree(w.pool, hs))

\* remove_invalid
RemoveInvalid(w, hs) ==
    IF hs = {} THEN [w |-> w, removed |-> <<>>]
    ELSE RemoveSubtree(w, hs, TRUE, "invalid")

\* PoolRotator::ban_if_stale, the longevity predicate (no transaction reaches
\* the hard age here)
IsStale(number, tx) == tx.valid_till < number

\* ClearStale looking at the ready transactions alone
ClearStaleReadyOnly(w, number) ==
    LET to_remove == HashesOf(SelectSeq(w.pool.ready, LAMBDA r : IsStale(number, r)))
    IN  RemoveInvalid([w EXCEPT !.banned = Ban(@, to_remove)], to_remove).w

\* clear_stale(at)
ClearStale(w, number) ==
    LET to_remove == HashesOf(SelectSeq(w.pool.ready, LAMBDA r : IsStale(number, r)))
        futures_to_remove ==
            HashesOf(SelectSeq(w.pool.future, LAMBDA r : IsStale(number, r)))
        Stale(w1) == RemoveInvalid(RemoveInvalid(w1, to_remove).w, futures_to_remove).w
    IN  Stale([w EXCEPT !.banned = Ban(@, to_remove \cup futures_to_remove)])

\* HashMap::insert
Put(m, k, v) == [x \in DOMAIN m \cup {k} |-> IF x = k THEN v ELSE m[x]]

RECURSIVE PutAll(_, _, _)
PutAll(m, ks, v) == IF ks = <<>> THEN m ELSE PutAll(Put(m, Head(ks), v), Tail(ks), v)

\* IndexMap::shift_remove
ShiftRemove(upd, h) == SelectSeq(upd, LAMBDA v : v.hash # h)

\* resubmit, the body of `for removed_tx in removed`
RECURSIVE Requeue(_, _)
Requeue(st, removed) ==
    IF removed = <<>> THEN st
    ELSE LET tx == Head(removed)
             Known == SelectSeq(st.updated, LAMBDA v : v.hash = tx.hash)
         IN  Requeue([st EXCEPT !.updated = ShiftRemove(@, tx.hash),
                                !.initial = Put(@, tx.hash, "Ready"),
                                !.todo = Append(@, IF Known # <<>> THEN Head(Known)
                                                   ELSE Valid(tx))],
                     Tail(removed))

\* RemoveUpdated with the verdict of a hash that is missing from the pool
\* queued for import all the same
RECURSIVE RemoveUpdatedQueueMissing(_)
RemoveUpdatedQueueMissing(st) ==
    IF st.updated = <<>> THEN st
    ELSE LET hash == Head(st.updated).hash
             Cut(r) ==
                 LET Queued(q) ==
                         [q EXCEPT !.updated = ShiftRemove(@, hash),
                                   !.todo = IF r.removed = <<>>
                                            THEN Append(@, Head(st.updated)) ELSE @]
                 IN  Queued(Requeue([st EXCEPT !.pool = r.pool,
                                               !.rounds = @ + 1], r.removed))
         IN  RemoveUpdatedQueueMissing(Cut(BaseRemoveSubtree(st.pool, {hash})))

\* RemoveUpdated with the initial status recorded as the partition the record
\* was found in
RECURSIVE RemoveUpdatedAsFound(_)
RemoveUpdatedAsFound(st) ==
    IF st.updated = <<>> THEN st
    ELSE LET hash == Head(st.updated).hash
             Cut(r) ==
                 LET Queued(q) ==
                         [q EXCEPT !.updated = ShiftRemove(@, hash),
                                   !.initial =
                                       [h \in DOMAIN q.initial |->
                                           IF h \in HashesOf(st.pool.future)
                                           THEN "Future" ELSE q.initial[h]]]
                 IN  Queued(Requeue([st EXCEPT !.pool = r.pool,
                                               !.rounds = @ + 1], r.removed))
         IN  RemoveUpdatedAsFound(Cut(BaseRemoveSubtree(st.pool, {hash})))

\* resubmit, `while !updated_transactions.is_empty()`
RECURSIVE RemoveUpdated(_)
RemoveUpdated(st) ==
    IF st.updated = <<>> THEN st
    ELSE LET hash == Head(st.updated).hash
             Cut(r) ==
                 LET Queued(q) == [q EXCEPT !.updated = ShiftRemove(@, hash)]
                 IN  Queued(Requeue([st EXCEPT !.pool = r.pool,
                                               !.rounds = @ + 1], r.removed))
         IN  RemoveUpdated(Cut(BaseRemoveSubtree(st.pool, {hash})))

\* Reimport with the loop left at the first verdict that fails
RECURSIVE ReimportAbort(_, _)
ReimportAbort(st, todo) ==
    IF todo = <<>> THEN st
    ELSE LET v == Head(todo)
             Failed == [st EXCEPT !.final = Put(@, v.hash, "Failed")]
             Took(imp) ==
                 IF imp.kind = "Future"
                 THEN [st EXCEPT !.pool = imp.pool,
                                 !.final = Put(@, v.hash, "Future")]
                 ELSE [st EXCEPT !.pool = imp.pool,
                                 !.final =
                                     PutAll(PutAll(PutAll(Put(@, v.hash, "Ready"),
                                                          imp.promoted, "Ready"),
                                                   imp.failed, "Failed"),
                                            MapHash(imp.removed), "Dropped")]
             Next1(imp) == IF imp.ok THEN ReimportAbort(Took(imp), Tail(todo)) ELSE Failed
         IN  IF v.kind = "Valid" THEN Next1(Import(st.pool, v.tx)) ELSE Failed

\* resubmit, `for (tx_hash, tx_to_resubmit) in txs_to_resubmit`
RECURSIVE Reimport(_, _)
Reimport(st, todo) ==
    IF todo = <<>> THEN st
    ELSE LET v == Head(todo)
             Took(imp) ==
                 IF ~imp.ok THEN [st EXCEPT !.final = Put(@, v.hash, "Failed")]
                 ELSE IF imp.kind = "Future"
                 THEN [st EXCEPT !.pool = imp.pool,
                                 !.final = Put(@, v.hash, "Future")]
                 ELSE [st EXCEPT !.pool = imp.pool,
                                 !.final =
                                     PutAll(PutAll(PutAll(Put(@, v.hash, "Ready"),
                                                          imp.promoted, "Ready"),
                                                   imp.failed, "Failed"),
                                            MapHash(imp.removed), "Dropped")]
         IN  Reimport(IF v.kind = "Valid" THEN Took(Import(st.pool, v.tx))
                      ELSE [st EXCEPT !.final = Put(@, v.hash, "Failed")],
                      Tail(todo))

\* ResubmitStatuses with the re-imports made while the pool rejects future
\* transactions as it is configured to
ResubmitStatusesRejecting(p, updated) ==
    LET Again(st) == Reimport(st, st.todo)
    IN  Again(RemoveUpdated([pool |-> p, updated |-> updated, initial |-> <<>>,
                             todo |-> <<>>, final |-> <<>>, rounds |-> 0,
                             cleared |-> <<>>]))

\* ResubmitStatuses with the future queue left as the re-imports filled it
ResubmitStatusesKeepFuture(p, updated) ==
    LET Restored(st) == [st EXCEPT !.pool.reject_future = p.reject_future]
        Again(st) ==
            Restored(Reimport([st EXCEPT !.pool.reject_future = FALSE], st.todo))
    IN  Again(RemoveUpdated([pool |-> p, updated |-> updated, initial |-> <<>>,
                             todo |-> <<>>, final |-> <<>>, rounds |-> 0,
                             cleared |-> <<>>]))

\* resubmit, the pool part: with_futures_enabled around the re-imports, the
\* future queue cleared afterwards if the pool rejects future transactions
ResubmitStatuses(p, updated) ==
    LET Cleared(st) ==
            IF p.reject_future
            THEN [st EXCEPT !.pool = [@ EXCEPT !.future = <<>>, !.reject_future = TRUE],
                            !.final = PutAll(@, MapHash(st.pool.future), "Dropped"),
                            !.cleared = MapHash(st.pool.future)]
            ELSE st
        Again(st) ==
            Cleared(Reimport([st EXCEPT !.pool.reject_future = FALSE], st.todo))
    IN  Again(RemoveUpdated([pool |-> p, updated |-> updated, initial |-> <<>>,
                             todo |-> <<>>, final |-> <<>>, rounds |-> 0,
                             cleared |-> <<>>]))

\* ResubmitNotify without the comparison against the initial status
RECURSIVE ResubmitNotifyAlways(_, _, _)
ResubmitNotifyAlways(w, st, order) ==
    IF order = <<>> THEN w
    ELSE LET hash == Head(order)
             Event == CASE st.final[hash] = "Future" -> Ev("future", hash)
                        [] st.final[hash] = "Ready" -> Ev("ready", hash)
                        [] st.final[hash] = "Dropped" -> Ev("dropped", hash)
                        [] OTHER -> Ev("invalid", hash)
         IN  ResubmitNotifyAlways(Dispatch(w, Event), st, Tail(order))

\* resubmit, `for (hash, final_status) in final_statuses`, in the order the
\* HashMap yields them
RECURSIVE ResubmitNotify(_, _, _)
ResubmitNotify(w, st, order) ==
    IF order = <<>> THEN w
    ELSE LET hash == Head(order)
             Changed == hash \notin DOMAIN st.initial \/ st.initial[hash] # st.final[hash]
             Event == CASE st.final[hash] = "Future" -> Ev("future", hash)
                        [] st.final[hash] = "Ready" -> Ev("ready", hash)
                        [] st.final[hash] = "Dropped" -> Ev("dropped", hash)
                        [] OTHER -> Ev("invalid", hash)
         IN  ResubmitNotify(IF Changed THEN Dispatch(w, Event) ELSE w, st, Tail(order))

\* resubmit
Resubmit(w, st, order) == ResubmitNotify([w EXCEPT !.pool = st.pool], st, order)

\* HashAndNumber: the hash of block `number`
BlockHash(number) == 200 + number

\* FirePruned with the notification sent for every element of `hashes`
RECURSIVE FirePrunedEvery(_, _, _, _)
FirePrunedEvery(w, at_hash, hashes, set) ==
    IF hashes = <<>> THEN w
    ELSE FirePrunedEvery(Dispatch(w, EvBy("in_block", Head(hashes), at_hash)),
                         at_hash, Tail(hashes), set)

\* fire_pruned: `set` holds the hashes already notified
RECURSIVE FirePruned(_, _, _, _)
FirePruned(w, at_hash, hashes, set) ==
    IF hashes = <<>> THEN w
    ELSE IF Head(hashes) \in set THEN FirePruned(w, at_hash, Tail(hashes), set)
    ELSE FirePruned(Dispatch(w, EvBy("in_block", Head(hashes), at_hash)),
                    at_hash, Tail(hashes), set \cup {Head(hashes)})

\* IntoPoolError::into_pool_error(r) matches Err(Ok(Error::InvalidTransaction(_)))
IsInvalidTransaction(r) == ~r.ok /\ r.err = "InvalidTransaction"

\* resubmit_pruned: the pruned hashes whose result became invalid
RECURSIVE NowInvalid(_, _)
NowInvalid(results, pruned_hashes) ==
    IF results = <<>> THEN <<>>
    ELSE (IF IsInvalidTransaction(Head(results)) THEN <<Head(pruned_hashes)>> ELSE <<>>)
             \o NowInvalid(Tail(results), Tail(pruned_hashes))

\* resubmit_pruned
ResubmitPruned(w, number, known_imported_hashes, pruned_hashes, pruned_xts, isv) ==
    LET Cleaned(r, fired) ==
            [w |-> ClearStale(fired, number), results |-> r.results,
             submitted |-> Len(r.w.events), fired |-> Len(fired.events)]
        Fired(r) ==
            Cleaned(r, FirePruned(r.w, BlockHash(number),
                                  NowInvalid(r.results, pruned_hashes)
                                      \o known_imported_hashes, {}))
    IN  Fired(Submit(w, pruned_xts, isv))

WithWatcher(results, id) ==
    [i \in DOMAIN results |->
        IF results[i].ok THEN [results[i] EXCEPT !.watcher = id] ELSE results[i]]

\* the receiver of watcher `id` goes away; the registry learns of it on the
\* next send
Unhold(ws, id) ==
    [i \in DOMAIN ws |-> IF ws[i].id = id THEN [ws[i] EXCEPT !.held = FALSE] ELSE ws[i]]

WatchRecord(r, w, results, id) ==
    [w |-> w, results |-> results, raw |-> r.raw, removed |-> r.removed,
     steps |-> r.steps, enforced |-> r.enforced, watcher |-> id]

WatchErr(w0, w, e) ==
    [w |-> w, results |-> <<Err(e)>>, raw |-> <<Err(e)>>, removed |-> <<>>,
     steps |-> <<w0>>, enforced |-> FALSE, watcher |-> 0]

\* SubmitAndWatch with the watcher created once submit has returned
SubmitAndWatchLate(w, v, isv) ==
    CASE v.kind = "Valid" ->
            LET Attach(r, w1, id) ==
                    IF r.results[1].ok
                    THEN WatchRecord(r, w1, WithWatcher(r.results, id), id)
                    ELSE WatchRecord(r, [w1 EXCEPT !.watchers = Unhold(@, id)],
                                     r.results, id)
                Created(r, w1) == Attach(r, w1, w1.watchers[Len(w1.watchers)].id)
                Watched(r) == Created(r, CreateWatcher(r.w, HashOf(v.tx.data)))
            IN  Watched(Submit(w, <<v>>, isv))
      [] v.kind = "Invalid" ->
            WatchErr(w, [w EXCEPT !.banned = Ban(@, {v.hash})], v.err)
      [] v.kind = "Unknown" -> WatchErr(w, w, v.err)

\* submit_and_watch
SubmitAndWatch(w, v, isv) ==
    CASE v.kind = "Valid" ->
            LET Attach(r, id) ==
                    IF r.results[1].ok
                    THEN WatchRecord(r, r.w, WithWatcher(r.results, id), id)
                    ELSE WatchRecord(r, [r.w EXCEPT !.watchers = Unhold(@, id)],
                                     r.results, id)
                Watched(w1) == Attach(Submit(w1, <<v>>, isv), w1.watchers[Len(w1.watchers)].id)
            IN  Watched(CreateWatcher(w, HashOf(v.tx.data)))
      [] v.kind = "Invalid" ->
            WatchErr(w, [w EXCEPT !.banned = Ban(@, {v.hash})], v.err)
      [] v.kind = "Unknown" -> WatchErr(w, w, v.err)

-----------------------------------------------------------------------------
(* Inputs.                                                                  *)

\* the hashes the Invalid and the Unknown verdicts of the model carry
JudgedHashes == {T1.hash, T3.hash}

ValidVerdicts == {Valid(t) : t \in Catalogue}

Verdicts ==
    ValidVerdicts
        \cup {Invalid(h, "InvalidTransaction") : h \in JudgedHashes}
        \cup {Unknown(h, "UnknownTransaction") : h \in JudgedHashes}

BatchesOf(vs, n) == UNION {[1..k -> vs] : k \in 0..n}

Batches == BatchesOf(Verdicts, MaxBatch)

ValidBatches == BatchesOf(ValidVerdicts, MaxBatch)

\* the batches of one verdict
SingleBatches == {<<v>> : v \in Verdicts}

\* t3 as a later block validates it: it requires nothing any more and
\* competes for tag x
Revalidated == [T3 EXCEPT !.requires = {}, !.provides = {"x"}]

\* IndexMap<hash, verdict>: a batch of revalidation results whose keys are
\* distinct
UpdatedMaps ==
    {b \in BatchesOf(Verdicts \cup {Valid(Revalidated)}, MaxBatch) :
        \A i, j \in DOMAIN b : b[i].hash = b[j].hash => i = j}

\* the orders in which a HashMap may yield the keys `ks`
Orders(ks) ==
    {o \in [1..Cardinality(ks) -> ks] : \A i, j \in DOMAIN o : o[i] = o[j] => i = j}

\* the revalidated pruned transactions: t1 still valid or invalid by now,
\* t3 invalid or unknown
PrunedVerdicts ==
    {Valid(T1), Invalid(T1.hash, "InvalidTransaction"),
     Invalid(T3.hash, "InvalidTransaction"), Unknown(T3.hash, "UnknownTransaction")}

\* pruned_xts with pruned_hashes of the same length, and known_imported_hashes
PrunedLists ==
    UNION {[xts : [1..k -> PrunedVerdicts], hashes : [1..k -> JudgedHashes]] :
              k \in 0..MaxPruned}

KnownLists == UNION {[1..k -> JudgedHashes] : k \in 0..MaxPruned}

Threads == {1, 2}

NoCall == [op |-> "none"]

\* the world a call starts in
World == [pool |-> pool, banned |-> banned, sinks |-> sinks,
          watchers |-> watchers, events |-> <<>>]

Install(w) ==
    /\ pool' = w.pool
    /\ banned' = w.banned
    /\ sinks' = w.sinks
    /\ watchers' = w.watchers
    /\ events' = w.events

\* a submitter that has not called yet
Idle == [pc |-> "idle", batch |-> <<>>, isv |-> FALSE, idx |-> 0, raw |-> <<>>,
         imp |-> NoImport, exceeded |-> FALSE, removed |-> <<>>, results |-> <<>>,
         hashes |-> {}]

EmptyWorld == [pool |-> EmptyPool(FALSE), banned |-> {}, sinks |-> <<>>,
               watchers |-> <<>>, events |-> <<>>]

InitWorld ==
    /\ pool = EmptyPool(FALSE)
    /\ banned = {}
    /\ sinks = <<>>
    /\ watchers = <<>>
    /\ events = <<>>
    /\ last = NoCall

Init == InitWorld /\ thr = [t \in Threads |-> Idle]

-----------------------------------------------------------------------------
(* Calls, each a whole handler.  A call leaves its record in `last` and its *)
(* events in `events` until the caller has taken the result (Return).       *)

CallRecord(op, batch, isv, r) ==
    [op |-> op, batch |-> batch, isv |-> isv, results |-> r.results,
     raw |-> r.raw, removed |-> r.removed, steps |-> r.steps,
     enforced |-> r.enforced, pre |-> World, watcher |-> 0]

SubmitOf(batches) ==
    /\ last = NoCall
    /\ \E batch \in batches, isv \in BOOLEAN :
        \E r \in {Submit(World, batch, isv)} :
            /\ Install(r.w)
            /\ last' = CallRecord("submit", batch, isv, r)
    /\ UNCHANGED thr

DoSubmit == SubmitOf(Batches)

DoSubmitValid == SubmitOf(ValidBatches)

DoSubmitSingle == SubmitOf(SingleBatches)

DoSubmitAndWatch ==
    /\ last = NoCall
    /\ \E v \in Verdicts, isv \in BOOLEAN :
        /\ v.kind = "Valid" => Len(watchers) < MaxWatchers
        /\ \E r \in {SubmitAndWatch(World, v, isv)} :
            /\ Install(r.w)
            /\ last' = [CallRecord("submit_and_watch", <<v>>, isv, r)
                            EXCEPT !.watcher = r.watcher]
    /\ UNCHANGED thr

DoPruneTags ==
    /\ last = NoCall
    /\ \E tags \in SUBSET Tags :
        \E r \in {PruneTags(World, tags)} :
            /\ Install(r.w)
            /\ last' = [op |-> "prune_tags", tags |-> tags, status |-> r.status,
                        pre |-> World]
    /\ UNCHANGED thr

DoRemoveInvalid ==
    /\ last = NoCall
    /\ \E hs \in SUBSET Hashes :
        \E r \in {RemoveInvalid(World, hs)} :
            /\ Install(r.w)
            /\ last' = [op |-> "remove_invalid", hashes |-> hs,
                        removed |-> r.removed, pre |-> World]
    /\ UNCHANGED thr

DoClearStale ==
    /\ last = NoCall
    /\ \E number \in 1..MaxBlock :
        /\ Install(ClearStale(World, number))
        /\ last' = [op |-> "clear_stale", number |-> number, pre |-> World]
    /\ UNCHANGED thr

DoResubmit ==
    /\ last = NoCall
    /\ \E updated \in UpdatedMaps :
        \E st \in {ResubmitStatuses(pool, updated)} :
            \E order \in Orders(DOMAIN st.final) :
                /\ Install(Resubmit(World, st, order))
                /\ last' = [op |-> "resubmit", updated |-> updated,
                            initial |-> st.initial, final |-> st.final,
                            rounds |-> st.rounds, todo |-> st.todo,
                            cleared |-> st.cleared, pre |-> World]
    /\ UNCHANGED thr

DoResubmitPruned ==
    /\ last = NoCall
    /\ \E pruned \in PrunedLists, known \in KnownLists,
          number \in 1..MaxBlock, isv \in {TRUE} :
        \E r \in {ResubmitPruned(World, number, known, pruned.hashes, pruned.xts, isv)} :
            /\ Install(r.w)
            /\ last' = [op |-> "resubmit_pruned", number |-> number,
                        known |-> known, pruned_hashes |-> pruned.hashes,
                        pruned_xts |-> pruned.xts, isv |-> isv,
                        results |-> r.results, submitted |-> r.submitted,
                        fired |-> r.fired, pre |-> World]
    /\ UNCHANGED thr

\* check_is_known takes read access only
DoCheckIsKnown ==
    /\ last = NoCall
    /\ \E h \in Hashes, ignore_banned \in BOOLEAN :
        last' = [op |-> "check_is_known", hash |-> h, ignore_banned |-> ignore_banned,
                 result |-> CheckIsKnown(World, h, ignore_banned), pre |-> World]
    /\ UNCHANGED <<pool, banned, sinks, watchers, events, thr>>

\* the caller takes the result; closed watchers are gone from the registry
Return ==
    /\ last # NoCall
    /\ last' = NoCall
    /\ events' = <<>>
    /\ watchers' = SelectSeq(watchers, LAMBDA x : ~x.closed)
    /\ UNCHANGED <<pool, banned, sinks, thr>>

\* the holder of a watcher drops it
DropWatcher ==
    /\ last = NoCall
    /\ \E i \in DOMAIN watchers :
        /\ watchers[i].held
        /\ watchers' = [watchers EXCEPT ![i].held = FALSE]
    /\ UNCHANGED <<pool, banned, sinks, events, last, thr>>

\* import_notification_stream
ImportNotificationStream ==
    /\ last = NoCall
    /\ Len(sinks) < MaxSinks
    /\ sinks' = Append(sinks, [open |-> TRUE, buf |-> <<>>])
    /\ UNCHANGED <<pool, banned, watchers, events, last, thr>>

\* import_notification_stream, called once: the sinks are handled one by
\* one, so a single stream is followed
FirstStream == sinks = <<>> /\ ImportNotificationStream

\* the consumer of a stream takes the next hash
SinkReceive ==
    /\ last = NoCall
    /\ \E i \in DOMAIN sinks :
        /\ sinks[i].open /\ sinks[i].buf # <<>>
        /\ sinks' = [sinks EXCEPT ![i].buf = Tail(@)]
    /\ UNCHANGED <<pool, banned, watchers, events, last, thr>>

\* the consumer of a stream drops it
SinkClose ==
    /\ last = NoCall
    /\ \E i \in DOMAIN sinks :
        /\ sinks[i].open
        /\ sinks' = [sinks EXCEPT ![i] = [open |-> FALSE, buf |-> <<>>]]
    /\ UNCHANGED <<pool, banned, watchers, events, last, thr>>

\* submit calls alone
Next == DoSubmit \/ Return

Spec == Init /\ [][Next]_vars

\* submit with import-notification streams
NextSinks ==
    DoSubmitValid \/ Return \/ ImportNotificationStream \/ SinkReceive \/ SinkClose

SpecSinks == Init /\ [][NextSinks]_vars

\* submit and submit_and_watch with watchers
NextWatch == DoSubmitSingle \/ DoSubmitAndWatch \/ Return \/ DropWatcher

SpecWatch == Init /\ [][NextWatch]_vars

\* the maintenance operations next to submit
NextOps ==
    \/ DoSubmitValid
    \/ DoPruneTags
    \/ DoRemoveInvalid
    \/ DoClearStale
    \/ DoResubmit
    \/ Return

SpecOps == Init /\ [][NextOps]_vars

\* the pre-check next to submit
NextKnown == DoSubmit \/ DoCheckIsKnown \/ Return

SpecKnown == Init /\ [][NextKnown]_vars

\* blocks are imported: the transactions pruned by each are revalidated and
\* resubmitted on a validator node
NextPruned == DoResubmitPruned \/ Return

SpecPruned == Init /\ [][NextPruned]_vars

\* the pool as Options configure it: reject_future_transactions set or not
InitOptions ==
    /\ pool \in {EmptyPool(reject) : reject \in BOOLEAN}
    /\ banned = {}
    /\ sinks = <<>>
    /\ watchers = <<>>
    /\ events = <<>>
    /\ last = NoCall
    /\ thr = [t \in Threads |-> Idle]

\* the maintenance operations on a pool of either configuration
SpecOptions == InitOptions /\ [][NextOps]_vars

\* watched transactions next to batches of valid ones
NextTerminal == DoSubmitAndWatch \/ DoSubmitValid \/ Return

SpecTerminal == Init /\ [][NextTerminal]_vars

\* import-notification streams next to the operations that make transactions
\* ready
NextAnnounce ==
    \/ DoSubmitValid
    \/ DoPruneTags
    \/ DoResubmit
    \/ FirstStream
    \/ SinkReceive
    \/ Return

SpecAnnounce == Init /\ [][NextAnnounce]_vars

-----------------------------------------------------------------------------
(* Concurrent submitters.  Each thread makes one submit call, a step at a   *)
(* time: a step is what the call does while it holds one lock.  The events  *)
(* are dispatched but not recorded here.                                    *)

ConcBatches == BatchesOf(ValidVerdicts, ConcBatch) \ {<<>>}

\* the pool one earlier submit call has left
InitConc ==
    /\ \E b \in BatchesOf(ValidVerdicts, ConcBatch) :
        \E w \in {Submit(EmptyWorld, b, TRUE).w} :
            /\ pool = w.pool
            /\ banned = w.banned
    /\ sinks = <<>>
    /\ watchers = <<>>
    /\ events = <<>>
    /\ last = NoCall
    /\ thr = [t \in Threads |-> Idle]

InstallQuiet(w) ==
    /\ pool' = w.pool
    /\ banned' = w.banned
    /\ sinks' = w.sinks
    /\ watchers' = w.watchers
    /\ UNCHANGED events

\* the call is over: the results are rewritten and returned
Finished(th, removed) ==
    [th EXCEPT !.pc = "done", !.removed = removed, !.results = Rewrite(th.raw, removed)]

\* on to the next element, or to enforce_limits when one element succeeded
Advance(th) ==
    IF th.idx < Len(th.batch) THEN [th EXCEPT !.pc = "import", !.idx = @ + 1]
    ELSE IF AnyOk(th.raw) THEN [th EXCEPT !.pc = "status"]
    ELSE Finished(th, <<>>)

\* submit is called
CCall(t) ==
    /\ thr[t].pc = "idle"
    /\ \E batch \in ConcBatches, isv \in BOOLEAN :
        thr' = [thr EXCEPT ![t] = [Idle EXCEPT !.pc = "import", !.batch = batch,
                                               !.isv = isv, !.idx = 1]]
    /\ UNCHANGED <<pool, banned, sinks, watchers, events, last>>

\* submit_one: the gate and the import, under the pool's write lock
CImport(t) ==
    /\ thr[t].pc = "import"
    /\ \E s \in {SubmitOneImport(World, thr[t].batch[thr[t].idx], thr[t].isv)} :
        /\ InstallQuiet(s.w)
        /\ thr' = [thr EXCEPT ![t] =
                    IF s.imported.ok
                    THEN [@ EXCEPT !.pc = "publish", !.imp = s.imported,
                                   !.raw = Append(@, s.res)]
                    ELSE Advance([@ EXCEPT !.raw = Append(@, s.res)])]
    /\ UNCHANGED last

\* submit_one: the import notification and fire_events
CPublish(t) ==
    /\ thr[t].pc = "publish"
    /\ InstallQuiet(FireEvents(NotifySinks(World, thr[t].imp), thr[t].imp))
    /\ thr' = [thr EXCEPT ![t] = Advance([@ EXCEPT !.imp = NoImport])]
    /\ UNCHANGED last

\* enforce_limits: the status check, under the pool's read lock
CStatus(t) ==
    /\ thr[t].pc = "status"
    /\ thr' = [thr EXCEPT ![t] =
                IF LimitsExceeded(World) THEN [@ EXCEPT !.pc = "evict", !.exceeded = TRUE]
                ELSE Finished(@, <<>>)]
    /\ UNCHANGED <<pool, banned, sinks, watchers, events, last>>

\* enforce_limits: the eviction and the ban, under the pool's write lock
CEvict(t) ==
    /\ thr[t].pc = "evict"
    /\ \E e \in {EnforceEvict(World)} :
        /\ InstallQuiet(e.w)
        /\ thr' = [thr EXCEPT ![t] = [@ EXCEPT !.pc = "notify", !.removed = e.removed]]
    /\ UNCHANGED last

\* enforce_limits: the notifications, and the return of submit
CEnforceNotify(t) ==
    /\ thr[t].pc = "notify"
    /\ InstallQuiet(EnforceNotify(World, thr[t].removed))
    /\ thr' = [thr EXCEPT ![t] = Finished(@, @.removed)]
    /\ UNCHANGED last

NextConc ==
    \E t \in Threads :
        \/ CCall(t)
        \/ CImport(t)
        \/ CPublish(t)
        \/ CStatus(t)
        \/ CEvict(t)
        \/ CEnforceNotify(t)

SpecConc == InitConc /\ [][NextConc]_vars

\* submit_one: the import notification, under the lock of the sinks
CNotify(t) ==
    /\ thr[t].pc = "publish"
    /\ InstallQuiet(NotifySinks(World, thr[t].imp))
    /\ thr' = [thr EXCEPT ![t].pc = "fire"]
    /\ UNCHANGED last

\* CFire with nothing dispatched
CFireSilent(t) ==
    /\ thr[t].pc = "fire"
    /\ thr' = [thr EXCEPT ![t] = Advance([@ EXCEPT !.imp = NoImport])]
    /\ UNCHANGED <<pool, banned, sinks, watchers, events, last>>

\* submit_one: fire_events, under the write lock of the dispatcher; these
\* events are recorded
CFire(t) ==
    /\ thr[t].pc = "fire"
    /\ \E w \in {FireEvents(World, thr[t].imp)} :
        /\ watchers' = w.watchers
        /\ events' = events \o w.events
    /\ thr' = [thr EXCEPT ![t] = Advance([@ EXCEPT !.imp = NoImport])]
    /\ UNCHANGED <<pool, banned, sinks, last>>

\* the consumer of a stream reads the next hash
CReceive ==
    /\ \E k \in DOMAIN sinks :
        /\ sinks[k].open /\ sinks[k].buf # <<>>
        /\ sinks' = [sinks EXCEPT ![k].buf = Tail(@)]
        /\ last' = [op |-> "receive", hash |-> Head(sinks[k].buf)]
    /\ UNCHANGED <<pool, banned, watchers, events, thr>>

\* concurrent submitters and the consumers of the import-notification
\* streams
NextStream ==
    \/ \E t \in Threads :
        \/ CCall(t)
        \/ CImport(t)
        \/ CNotify(t)
        \/ CFire(t)
        \/ CStatus(t)
        \/ CEvict(t)
        \/ CEnforceNotify(t)
    \/ FirstStream
    \/ CReceive

SpecStream == InitConc /\ [][NextStream]_vars

-----------------------------------------------------------------------------
(* A submitter next to a thread that calls remove_invalid.  Every step is   *)
(* what the call does while it holds one lock, and every event dispatched   *)
(* is recorded.                                                             *)

\* remove_invalid is called, with hashes to remove
RCall(t) ==
    /\ thr[t].pc = "idle"
    /\ \E h \in Hashes :
        thr' = [thr EXCEPT ![t] = [Idle EXCEPT !.pc = "ban", !.hashes = {h}]]
    /\ UNCHANGED <<pool, banned, sinks, watchers, events, last>>

\* remove_subtree: the ban of the named hashes, under the lock of the rotator
RBan(t) ==
    /\ thr[t].pc = "ban"
    /\ banned' = Ban(banned, thr[t].hashes)
    /\ thr' = [thr EXCEPT ![t].pc = "remove"]
    /\ UNCHANGED <<pool, sinks, watchers, events, last>>

\* RRemove with the events dispatched while the pool is still locked
RRemoveDispatching(t) ==
    /\ thr[t].pc = "remove"
    /\ \E r \in {BaseRemoveSubtree(pool, thr[t].hashes)} :
        /\ pool' = r.pool
        /\ events' = events \o EvSeq("invalid", MapHash(r.removed))
        /\ thr' = [thr EXCEPT ![t] = [@ EXCEPT !.pc = "done", !.idx = 1,
                                               !.removed = MapHash(r.removed)]]
    /\ UNCHANGED <<banned, sinks, watchers, last>>

\* remove_subtree: the removal, under the pool's write lock
RRemove(t) ==
    /\ thr[t].pc = "remove"
    /\ \E r \in {BaseRemoveSubtree(pool, thr[t].hashes)} :
        /\ pool' = r.pool
        /\ thr' = [thr EXCEPT ![t] =
                    [@ EXCEPT !.pc = IF r.removed = <<>> THEN "done" ELSE "invalid",
                              !.idx = 1, !.removed = MapHash(r.removed)]]
    /\ UNCHANGED <<banned, sinks, watchers, events, last>>

\* remove_subtree: the event of the next removed transaction, under the write
\* lock of the dispatcher, taken once for each of them
RInvalid(t) ==
    /\ thr[t].pc = "invalid"
    /\ \E w \in {Dispatch(World, Ev("invalid", thr[t].removed[thr[t].idx]))} :
        /\ watchers' = w.watchers
        /\ events' = events \o w.events
    /\ thr' = [thr EXCEPT ![t] =
                [@ EXCEPT !.pc = IF thr[t].idx < Len(thr[t].removed) THEN "invalid"
                                 ELSE "done",
                          !.idx = @ + 1]]
    /\ UNCHANGED <<pool, banned, sinks, last>>

\* enforce_limits: the notifications, recorded, and the return of submit
CLimits(t) ==
    /\ thr[t].pc = "notify"
    /\ \E w \in {EnforceNotify(World, thr[t].removed)} :
        /\ watchers' = w.watchers
        /\ events' = events \o w.events
    /\ thr' = [thr EXCEPT ![t] = Finished(@, @.removed)]
    /\ UNCHANGED <<pool, banned, sinks, last>>

NextRace ==
    \E t \in Threads :
        \/ CCall(t)
        \/ CImport(t)
        \/ CNotify(t)
        \/ CFire(t)
        \/ CStatus(t)
        \/ CEvict(t)
        \/ CLimits(t)
        \/ RCall(t)
        \/ RBan(t)
        \/ RRemove(t)
        \/ RInvalid(t)

SpecRace == InitConc /\ [][NextRace]_vars

-----------------------------------------------------------------------------
(* Locks.  The pool (a reader-writer lock), the event dispatcher (a         *)
(* reader-writer lock), the import-notification sinks (a mutex) and the     *)
(* rotator's own lock.  A call is the sequence of its acquisitions and      *)
(* releases; what depends on data is a choice between sequences.            *)

Acq(l, m) == [a |-> "acq", l |-> l, m |-> m]

Rel(l) == [a |-> "rel", l |-> l, m |-> ""]

\* the guard of lock l, taken in mode m, lives over `body`
Locked(l, m, body) == <<Acq(l, m)>> \o body \o <<Rel(l)>>

\* PoolRotator::ban, ban_if_stale, clear_timeouts
RotatorLocks == Locked("rotator", "w", <<>>)

RECURSIVE Repeat(_, _)
Repeat(k, prog) == IF k = 0 THEN <<>> ELSE prog \o Repeat(k - 1, prog)

\* submit_one, by verdict and outcome of the import
SubmitOneLocks ==
    {[ok |-> TRUE,
      prog |-> Locked("pool", "w", <<>>) \o Locked("sinks", "w", <<>>)
                   \o Locked("dispatcher", "w", <<>>)],
     [ok |-> TRUE,
      prog |-> Locked("pool", "w", <<>>) \o Locked("dispatcher", "w", <<>>)],
     [ok |-> FALSE, prog |-> Locked("pool", "w", <<>>)],
     [ok |-> FALSE, prog |-> <<>>],
     [ok |-> FALSE, prog |-> RotatorLocks],
     [ok |-> FALSE, prog |-> Locked("dispatcher", "w", <<>>)]}

\* enforce_limits, limits respected or exceeded
EnforceLimitsLocks ==
    {Locked("pool", "r", <<>>),
     Locked("pool", "r", <<>>) \o Locked("pool", "w", RotatorLocks)
         \o Locked("dispatcher", "w", <<>>)}

\* submit
SubmitLocks ==
    LET RECURSIVE All(_)
        All(b) == IF b = <<>> THEN <<>> ELSE Head(b).prog \o All(Tail(b))
        SomeOk(b) == \E i \in DOMAIN b : b[i].ok
    IN  UNION {IF SomeOk(b) THEN {All(b) \o e : e \in EnforceLimitsLocks} ELSE {All(b)} :
                   b \in BatchesOf(SubmitOneLocks, ConcBatch)}

\* submit_and_watch
SubmitAndWatchLocks ==
    {Locked("dispatcher", "w", <<>>) \o one.prog \o e :
         one \in {x \in SubmitOneLocks : x.ok}, e \in EnforceLimitsLocks}
        \cup {Locked("dispatcher", "w", <<>>) \o Locked("pool", "w", <<>>),
              Locked("dispatcher", "w", <<>>), RotatorLocks, <<>>}

\* prune_tags
PruneTagsLocks == {Locked("pool", "w", <<>>) \o Locked("dispatcher", "w", <<>>)}

\* resubmit
ResubmitLocks == {Locked("pool", "w", <<>>) \o Locked("dispatcher", "w", <<>>)}

\* remove_subtree with ban_transactions: one dispatcher guard per removed
\* transaction
RemoveSubtreeLocks ==
    {RotatorLocks \o Locked("pool", "w", <<>>)
         \o Repeat(k, Locked("dispatcher", "w", <<>>)) : k \in 0..MaxLoop}

\* remove_invalid
RemoveInvalidLocks == {<<>>} \cup RemoveSubtreeLocks

\* clear_stale: ban_if_stale for every ready transaction, and for every
\* future transaction under the read guard of the pool
ClearStaleLocks ==
    {Locked("pool", "r", <<>>) \o Repeat(i, RotatorLocks)
         \o Locked("pool", "r", Repeat(j, RotatorLocks))
         \o a \o b \o RotatorLocks :
         i \in 0..MaxLoop, j \in 0..MaxLoop,
         a \in RemoveInvalidLocks, b \in RemoveInvalidLocks}

\* RetriggerLocks with the dispatcher taken first
RetriggerLocksDispatcherFirst ==
    {Locked("dispatcher", "w", Locked("pool", "r", <<>>))}

\* retrigger_notifications
RetriggerLocks == {Locked("pool", "r", Locked("dispatcher", "w", <<>>))}

LockPrograms ==
    [submit |-> SubmitLocks, submit_and_watch |-> SubmitAndWatchLocks,
     prune_tags |-> PruneTagsLocks, resubmit |-> ResubmitLocks,
     remove_invalid |-> RemoveInvalidLocks, clear_stale |-> ClearStaleLocks,
     retrigger_notifications |-> RetriggerLocks]

\* a caller outside the pool
Outside == [pc |-> "idle", op |-> "", todo |-> <<>>, held |-> <<>>]

InitLocks == InitWorld /\ thr = [t \in Threads |-> Outside]

\* no other thread keeps thread t from taking lock l in mode m
Free(t, l, m) ==
    \A u \in Threads \ {t} : \A i \in DOMAIN thr[u].held :
        thr[u].held[i].l = l => (m = "r" /\ thr[u].held[i].m = "r")

\* a thread calls an operation
LCall(t) ==
    /\ thr[t].pc = "idle"
    /\ \E op \in DOMAIN LockPrograms : \E prog \in LockPrograms[op] :
        thr' = [thr EXCEPT ![t] = [pc |-> "run", op |-> op, todo |-> prog, held |-> <<>>]]
    /\ UNCHANGED <<pool, banned, sinks, watchers, events, last>>

\* read(), write(), lock(): the thread waits until the lock is free
LAcquire(t) ==
    /\ thr[t].pc = "run" /\ thr[t].todo # <<>>
    /\ Head(thr[t].todo).a = "acq"
    /\ Free(t, Head(thr[t].todo).l, Head(thr[t].todo).m)
    /\ thr' = [thr EXCEPT ![t].todo = Tail(@),
                          ![t].held = Append(@, [l |-> Head(thr[t].todo).l,
                                                 m |-> Head(thr[t].todo).m])]
    /\ UNCHANGED <<pool, banned, sinks, watchers, events, last>>

\* a guard is dropped
LRelease(t) ==
    /\ thr[t].pc = "run" /\ thr[t].todo # <<>>
    /\ Head(thr[t].todo).a = "rel"
    /\ thr' = [thr EXCEPT ![t].todo = Tail(@),
                          ![t].held = SelectSeq(@, LAMBDA h : h.l # Head(thr[t].todo).l)]
    /\ UNCHANGED <<pool, banned, sinks, watchers, events, last>>

\* the call returns
LReturn(t) ==
    /\ thr[t].pc = "run" /\ thr[t].todo = <<>>
    /\ thr' = [thr EXCEPT ![t].pc = "done"]
    /\ UNCHANGED <<pool, banned, sinks, watchers, events, last>>

LStep(t) == LCall(t) \/ LAcquire(t) \/ LRelease(t) \/ LReturn(t)

NextLocks == \E t \in Threads : LStep(t)

\* a thread that can take a step takes it in the end: a lock that stays free
\* is granted
SpecLocks ==
    InitLocks /\ [][NextLocks]_vars /\ \A t \in Threads : WF_vars(LStep(t))

-----------------------------------------------------------------------------
(* Properties of submit.                                                    *)

Called(op) == last.op = op

Idx(n) == [i \in 1..n |-> i]

\* the positions of the batch whose submit_one succeeded
OkIdx == SelectSeq(Idx(Len(last.batch)), LAMBDA i : last.raw[i].ok)

InPool(h) == IsImported(pool, h)

\* the result r answers the verdict v
Answers(v, r) ==
    /\ r.ok => v.kind = "Valid" /\ r.hash = v.hash /\ r.priority = v.tx.priority
    /\ v.kind # "Valid" => ~r.ok /\ r.err = v.err
    /\ (v.kind = "Valid" /\ ~v.tx.propagate /\ ~last.isv) =>
            ~r.ok /\ r.err = "Unactionable"

\* C1: submit returns one result per verdict, at the verdict's position, and
\* the elements that fail stop nothing: the pool and the results of the other
\* elements are those of the same batch without the failing elements.
C1_OneResultPerVerdict ==
    Called("submit") =>
        /\ Len(last.results) = Len(last.batch)
        /\ \A i \in DOMAIN last.batch : Answers(last.batch[i], last.results[i])
        /\ LET without == Submit(last.pre, [k \in DOMAIN OkIdx |-> last.batch[OkIdx[k]]],
                                 last.isv)
           IN  /\ without.w.pool = pool
               /\ without.results = [k \in DOMAIN OkIdx |-> last.results[OkIdx[k]]]

\* a failing element is followed by one that is imported and stays
C1_Witness ==
    /\ Called("submit")
    /\ \E i, j \in DOMAIN last.batch :
        /\ i < j
        /\ ~last.results[i].ok
        /\ last.results[j].ok /\ InPool(last.results[j].hash)

\* C2: a result is ImmediatelyDropped exactly when its own submit_one
\* succeeded and enforce_limits of the same call evicted its hash; every other
\* result is what submit_one returned.
C2_ImmediatelyDropped ==
    Called("submit") =>
        /\ Range(last.removed) =
               (HashesOf(last.steps[Len(last.steps)].pool.ready)
                    \cup HashesOf(last.steps[Len(last.steps)].pool.future))
               \ (HashesOf(pool.ready) \cup HashesOf(pool.future))
        /\ \A i \in DOMAIN last.batch :
            /\ (last.results[i] = Err("ImmediatelyDropped")) <=>
                   (last.raw[i].ok /\ last.raw[i].hash \in Range(last.removed))
            /\ ~last.raw[i].ok => last.results[i] = last.raw[i]
            /\ (last.raw[i].ok /\ last.raw[i].hash \notin Range(last.removed)) =>
                   last.results[i] = last.raw[i]

\* one element evicted at once, another kept
C2_Witness ==
    /\ Called("submit")
    /\ \E i, j \in DOMAIN last.batch :
        /\ last.results[i] = Err("ImmediatelyDropped")
        /\ last.results[j].ok

\* C5: an Invalid verdict bans its hash, returns its error, imports nothing
\* and dispatches no event.
C5_InvalidBans ==
    Called("submit") =>
        \A i \in DOMAIN last.batch :
            last.batch[i].kind = "Invalid" =>
                /\ last.steps[i + 1].banned = last.steps[i].banned \cup {last.batch[i].hash}
                /\ last.batch[i].hash \in banned
                /\ last.results[i] = Err(last.batch[i].err)
                /\ last.steps[i + 1].pool = last.steps[i].pool
                /\ last.steps[i + 1].events = last.steps[i].events
                /\ last.steps[i + 1].sinks = last.steps[i].sinks
                /\ last.steps[i + 1].watchers = last.steps[i].watchers

\* an Invalid verdict for a hash that is in the pool and was not banned
C5_Witness ==
    /\ Called("submit")
    /\ \E i \in DOMAIN last.batch :
        /\ last.batch[i].kind = "Invalid"
        /\ last.batch[i].hash \notin last.pre.banned
        /\ IsImported(last.steps[i].pool, last.batch[i].hash)
        /\ InPool(last.batch[i].hash)

\* C6: an Unknown verdict dispatches invalid(hash), returns its error, bans
\* nothing and leaves the base pool as it is.
C6_UnknownNotifies ==
    Called("submit") =>
        \A i \in DOMAIN last.batch :
            last.batch[i].kind = "Unknown" =>
                /\ last.steps[i + 1].events =
                       Append(last.steps[i].events, Ev("invalid", last.batch[i].hash))
                /\ last.results[i] = Err(last.batch[i].err)
                /\ last.steps[i + 1].banned = last.steps[i].banned
                /\ last.steps[i + 1].pool = last.steps[i].pool
                /\ last.steps[i + 1].sinks = last.steps[i].sinks

\* an Unknown verdict for a hash that is in the pool, and stays in it unbanned
C6_Witness ==
    /\ Called("submit")
    /\ \E i \in DOMAIN last.batch :
        /\ last.batch[i].kind = "Unknown"
        /\ IsImported(last.steps[i].pool, last.batch[i].hash)
        /\ InPool(last.batch[i].hash)
        /\ last.batch[i].hash \notin banned

\* the element of the call at position i left the whole pool as it found it
Untouched(i) == last.steps[i + 1] = last.steps[i]

\* C4: a Valid transaction with propagate = false submitted to a pool that is
\* not a validator's is refused as Unactionable and changes nothing: pool,
\* bans, sinks and events stay as they were; a validator's pool imports it as
\* any other transaction.
C4_Unactionable ==
    Called("submit") =>
        \A i \in DOMAIN last.batch :
            (last.batch[i].kind = "Valid" /\ ~last.batch[i].tx.propagate) =>
                IF ~last.isv
                THEN last.raw[i] = Err("Unactionable") /\ Untouched(i)
                ELSE LET imp == Import(last.steps[i].pool, last.batch[i].tx)
                     IN  /\ last.raw[i] # Err("Unactionable")
                         /\ last.raw[i].ok = imp.ok
                         /\ imp.ok => /\ last.raw[i] = Ok(imp.hash, last.batch[i].tx.priority)
                                      /\ last.steps[i + 1].pool = imp.pool
                         /\ ~imp.ok => last.raw[i] = Err(imp.err)

\* a transaction a validator's pool had imported is refused by the same pool
\* once it is no validator's, with a stream listening
C4_Witness ==
    /\ Called("submit")
    /\ ~last.isv
    /\ \E i \in DOMAIN last.batch :
        /\ last.batch[i].kind = "Valid" /\ ~last.batch[i].tx.propagate
        /\ InPool(last.batch[i].hash)
        /\ \E k \in DOMAIN last.steps[i].sinks : last.steps[i].sinks[k].open

\* C9: when the base pool refuses the import, submit_one returns that error
\* and nothing else happens: no ban, no event, no import notification, and the
\* pool is as before.
C9_ImportFailure ==
    Called("submit") =>
        \A i \in DOMAIN last.batch :
            LET imp == Import(last.steps[i].pool, last.batch[i].tx)
            IN  (/\ last.batch[i].kind = "Valid"
                 /\ last.batch[i].tx.propagate \/ last.isv
                 /\ ~imp.ok) =>
                    /\ last.raw[i] = Err(imp.err)
                    /\ last.results[i] = Err(imp.err)
                    /\ Untouched(i)

\* an import refused for its priority, with a stream that has room listening
C9_Witness ==
    /\ Called("submit")
    /\ \E i \in DOMAIN last.batch :
        /\ last.raw[i] = Err("TooLowPriority")
        /\ last.batch[i].hash \notin banned
        /\ \E k \in DOMAIN last.steps[i].sinks :
            /\ last.steps[i].sinks[k].open
            /\ Len(last.steps[i].sinks[k].buf) < SinkBuffer

-----------------------------------------------------------------------------
(* Properties of submit_and_watch.                                          *)

\* C7: submit_and_watch treats an Invalid and an Unknown verdict as
\* submit_one does: same result, same bans, same events, same watchers.
C7_WatchAsSubmitOne ==
    (Called("submit_and_watch") /\ last.batch[1].kind \in {"Invalid", "Unknown"}) =>
        LET one == SubmitOne(last.pre, last.batch[1], last.isv)
        IN  /\ last.results[1] = one.res
            /\ banned = one.w.banned
            /\ pool = one.w.pool
            /\ events = one.w.events
            /\ watchers = one.w.watchers

\* an Unknown verdict handed to submit_and_watch while its hash is watched:
\* the call is over and nothing was dispatched
C7_Witness ==
    /\ Called("submit_and_watch")
    /\ last.batch[1].kind = "Unknown"
    /\ events = <<>>
    /\ \E k \in DOMAIN watchers : watchers[k].hash = last.batch[1].hash

\* the events of hash h, up to the first terminal one
RECURSIVE Heard(_, _)
Heard(es, h) ==
    IF es = <<>> THEN <<>>
    ELSE IF Head(es).h # h THEN Heard(Tail(es), h)
    ELSE IF Head(es).ev \in Terminal THEN <<Head(es)>>
    ELSE <<Head(es)>> \o Heard(Tail(es), h)

-----------------------------------------------------------------------------
(* Properties of concurrent submitters.                                     *)

AllReturned == \A t \in Threads : thr[t].pc = "done"

\* C3: once every submit call has returned, both partitions are within
\* their caps.
C3_WithinLimits ==
    AllReturned =>
        /\ ~IsExceeded(ReadyLimit, Len(pool.ready), SumBytes(pool.ready))
        /\ ~IsExceeded(FutureLimit, Len(pool.future), SumBytes(pool.future))

\* two calls overlapped: both saw the pool over its caps, one evicted and
\* the other found nothing left to evict
C3_Witness ==
    /\ AllReturned
    /\ \E t, u \in Threads :
        /\ thr[t].exceeded /\ thr[t].removed # <<>>
        /\ thr[u].exceeded /\ thr[u].removed = <<>>

\* the pairs of the priority law: no requirements, a common tag, a < b
Rivals ==
    {ab \in Catalogue \X Catalogue :
        /\ ab[1].requires = {} /\ ab[2].requires = {}
        /\ ab[1].provides \cap ab[2].provides # {}
        /\ ab[1].priority < ab[2].priority}

\* tx was handed to a submit call that has returned
Submitted(tx) ==
    \E t \in Threads :
        /\ thr[t].pc = "done"
        /\ \E i \in DOMAIN thr[t].batch : thr[t].batch[i].tx = tx

\* tx was handed to a call that did not refuse it as unactionable
Actionable(tx) ==
    \E t \in Threads :
        /\ thr[t].pc = "done"
        /\ \E i \in DOMAIN thr[t].batch :
            thr[t].batch[i].tx = tx /\ thr[t].raw[i] # Err("Unactionable")

Evicted == UNION {Range(thr[t].removed) : t \in Threads}

InReady(tx) == tx.hash \in HashesOf(pool.ready)

\* C10, as stated: of two submitted transactions that provide the same tag,
\* the one of higher priority is ready and the other is not in the pool,
\* whatever the order and the interleaving.
C10_PriorityLaw ==
    \A ab \in Rivals :
        (AllReturned /\ Submitted(ab[1]) /\ Submitted(ab[2])) =>
            InReady(ab[2]) /\ ~InPool(ab[1].hash)

\* C10: the priority law holds when both transactions reached the import and
\* enforce_limits of these calls did not evict the one of higher priority.
C10_PriorityLawUnlessEvicted ==
    \A ab \in Rivals :
        (/\ AllReturned
         /\ Actionable(ab[1]) /\ Actionable(ab[2])
         /\ ab[2].hash \notin Evicted) =>
            InReady(ab[2]) /\ ~InPool(ab[1].hash)

\* two threads, one transaction each, the lower priority imported first and
\* usurped by the other thread's import
C10_Witness ==
    /\ AllReturned
    /\ \E ab \in Rivals, t, u \in Threads :
        /\ t # u
        /\ thr[t].batch = <<Valid(ab[1])>> /\ thr[t].results[1].ok
        /\ thr[u].batch = <<Valid(ab[2])>> /\ thr[u].results[1].ok
        /\ InReady(ab[2]) /\ ~InPool(ab[1].hash)

-----------------------------------------------------------------------------
(* Properties of prune_tags.                                                *)

\* how often x occurs in the sequence s
Count(s, x) == Cardinality({i \in DOMAIN s : s[i] = x})

\* how often an event of kind e for hash h was dispatched
Times(e, h) == Cardinality({i \in DOMAIN events : events[i].ev = e /\ events[i].h = h})

\* the lists `field` of the Imported entries, one after the other
RECURSIVE Nested(_, _)
Nested(imps, field) ==
    IF imps = <<>> THEN <<>> ELSE Head(imps)[field] \o Nested(Tail(imps), field)

HeadsOf(imps) == [i \in DOMAIN imps |-> imps[i].hash]

\* prune_tags returned what the base pool reported and dispatched, for every
\* hash, as many events of each kind as the report names it
PruneEventsAsReported ==
    LET base == BasePruneTags(last.pre.pool, last.tags)
        prom == last.status.promoted
    IN  /\ last.status = [promoted |-> base.promoted, failed |-> base.failed,
                          pruned |-> base.pruned]
        /\ pool = base.pool
        /\ \A h \in Hashes :
            /\ Times("ready", h) =
                   Count(HeadsOf(prom), h) + Count(Nested(prom, "promoted"), h)
            /\ Count(HeadsOf(prom), h) <= 1
            /\ Times("invalid", h) = Count(Nested(prom, "failed"), h)
            /\ Times("usurped", h) = Count(MapHash(Nested(prom, "removed")), h)
            /\ Times("dropped", h) = Count(last.status.failed, h)
            /\ Count(last.status.failed, h) <= 1
        /\ Len(events) =
               Len(prom) + Len(Nested(prom, "promoted")) + Len(Nested(prom, "failed"))
                   + Len(Nested(prom, "removed")) + Len(last.status.failed)

\* the future records of the pool the call found whose requirements are all
\* among the pruned tags
Unlocked ==
    {last.pre.pool.future[i] : i \in
        {k \in DOMAIN last.pre.pool.future :
            last.pre.pool.future[k].requires \subseteq last.tags}}

\* C17, as stated: prune_tags dispatches the events of every promoted entry
\* and dropped(h) of every failed hash exactly once, returns the base pool's
\* status unchanged, and every future transaction whose required tags are
\* all pruned ends in ready with ready(h) dispatched.
C17_PruneEvents ==
    Called("prune_tags") =>
        /\ PruneEventsAsReported
        /\ \A f \in Unlocked : InReady(f) /\ Times("ready", f.hash) = 1

\* C17: as above, but an unlocked future transaction ends in ready only if
\* the priority rule lets it in; otherwise it is reported as failed, gets
\* dropped(h) and is gone from the pool.
C17_PruneEventsOrFailed ==
    Called("prune_tags") =>
        /\ PruneEventsAsReported
        /\ \A f \in Unlocked :
            \/ InReady(f) /\ Times("ready", f.hash) = 1 /\ Times("dropped", f.hash) = 0
            \/ /\ Count(last.status.failed, f.hash) = 1
               /\ Times("dropped", f.hash) = 1 /\ Times("ready", f.hash) = 0
               /\ ~InPool(f.hash)

\* a promotion refused: a ready transaction of higher priority provides the
\* tag of the unlocked one
C17_Witness ==
    /\ Called("prune_tags")
    /\ last.status.failed # <<>>
    /\ \E f \in Unlocked : ~InPool(f.hash) /\ Times("dropped", f.hash) = 1

\* a second prune_tags with the tags of the call just made changes nothing:
\* same pool, nothing promoted, failed or pruned, no event
SecondPruneIsVoid ==
    LET again == PruneTags(World, last.tags)
    IN  /\ again.w.pool = pool
        /\ again.status = [promoted |-> <<>>, failed |-> <<>>, pruned |-> <<>>]
        /\ again.w.events = <<>>

PromotedProvidesPruned ==
    \E i \in DOMAIN pool.ready : pool.ready[i].provides \cap last.tags # {}

-----------------------------------------------------------------------------
(* resubmit.                                                                *)

\* the events dispatched for hash h by the call
EventsFor(h) == SelectSeq(events, LAMBDA e : e.h = h)

\* the final status of h differs from the recorded initial one, or none was
\* recorded
StatusChanged(h) ==
    /\ h \in DOMAIN last.final
    /\ h \in DOMAIN last.initial => last.initial[h] # last.final[h]

\* the event that announces a final status
Announces(status) ==
    CASE status = "Future" -> "future"
      [] status = "Ready" -> "ready"
      [] status = "Dropped" -> "dropped"
      [] OTHER -> "invalid"

WasReady(h) == h \in HashesOf(last.pre.pool.ready)

\* C19: resubmit dispatches exactly one event, the one of the final status,
\* for every hash whose final status differs from the recorded initial status
\* or has none recorded, and no event for any other hash; a ready transaction
\* that is removed and imported again as ready gets none.
C19_ResubmitEvents ==
    Called("resubmit") =>
        \A h \in Hashes :
            /\ StatusChanged(h) =>
                   EventsFor(h) = <<Ev(Announces(last.final[h]), h)>>
            /\ ~StatusChanged(h) => EventsFor(h) = <<>>
            /\ (WasReady(h) /\ h \in HashesOf(pool.ready)) => EventsFor(h) = <<>>

\* one call with a silent ready-to-ready transaction and an event for a
\* transaction with no initial status
C19_Witness ==
    /\ Called("resubmit")
    /\ \E h \in DOMAIN last.initial :
           WasReady(h) /\ last.final[h] = "Ready" /\ EventsFor(h) = <<>>
    /\ \E h \in DOMAIN last.final :
           h \notin DOMAIN last.initial /\ Len(EventsFor(h)) = 1

\* the keys of the updated map that are not in the pool when the call starts
MissingKeys ==
    {last.updated[i].hash : i \in DOMAIN last.updated} \ 
        (HashesOf(last.pre.pool.ready) \cup HashesOf(last.pre.pool.future))

\* C20: resubmit drops the entry of a hash that is not in the pool: the hash
\* gets no status, no record and no event, and the removal loop ends after at
\* most one iteration per entry of the map.
C20_MissingNotImported ==
    Called("resubmit") =>
        /\ \A h \in MissingKeys :
            /\ ~InPool(h)
            /\ h \notin DOMAIN last.initial \cup DOMAIN last.final
            /\ EventsFor(h) = <<>>
        /\ last.rounds <= Len(last.updated)
        /\ last.updated # <<>> => last.rounds >= 1

\* a map with a valid verdict for a hash that is missing from the pool, which
\* could be imported, next to one for a hash that is in the pool
C20_Witness ==
    /\ Called("resubmit")
    /\ last.rounds = 2
    /\ \E i \in DOMAIN last.updated :
        /\ last.updated[i].hash \in MissingKeys
        /\ last.updated[i].kind = "Valid"
        /\ Import(last.pre.pool, last.updated[i].tx).ok
    /\ DOMAIN last.final # {}

-----------------------------------------------------------------------------
(* Terminal events.                                                         *)

Gone ==
    (HashesOf(last.pre.pool.ready) \cup HashesOf(last.pre.pool.future))
        \ (HashesOf(pool.ready) \cup HashesOf(pool.future))

\* the hashes prune_tags reports as pruned
PrunedHashes ==
    IF Called("prune_tags") THEN HashesOf(last.status.pruned) ELSE {}

\* the events of the call for hash h tell one terminal event per removal of
\* h: h leaves the pool with a terminal event, which is not followed by
\* another one unless h was imported again in between, and no terminal event
\* is dispatched for a record that stays
OneTerminalPerRemoval(h) ==
    LET OfHash(es) ==
            /\ \A k \in 1..(Len(es) - 1) :
                   ~(es[k].ev \in Terminal /\ es[k + 1].ev \in Terminal)
            /\ (es # <<>> /\ es[1].ev \in Terminal) => IsImported(last.pre.pool, h)
            /\ IF InPool(h) THEN es = <<>> \/ es[Len(es)].ev \notin Terminal
               ELSE (IsImported(last.pre.pool, h) \/ es # <<>>) =>
                        es # <<>> /\ es[Len(es)].ev \in Terminal
    IN  OfHash(EventsFor(h))

\* C12, as stated: every removal of a record from the base pool causes
\* exactly one terminal event for its hash.
C12_RemovalIsTerminal ==
    ~Called("none") => \A h \in Hashes : OneTerminalPerRemoval(h)

\* C12: every removal of a record from the base pool causes exactly one
\* terminal event for its hash, except the pruning of a ready record by
\* prune_tags, which dispatches no event for it.
C12_RemovalIsTerminalUnlessPruned ==
    ~Called("none") =>
        \A h \in Hashes :
            IF h \in PrunedHashes THEN EventsFor(h) = <<>>
            ELSE OneTerminalPerRemoval(h)

\* a stale transaction removed together with a descendant that is not
\* stale, one terminal event each
C12_Witness ==
    /\ Called("clear_stale")
    /\ Cardinality(Gone) = 2
    /\ \E i \in DOMAIN last.pre.pool.ready :
        /\ last.pre.pool.ready[i].hash \in Gone
        /\ ~IsStale(last.number, last.pre.pool.ready[i])
    /\ \A h \in Gone : EventsFor(h) = <<Ev("invalid", h)>>

-----------------------------------------------------------------------------
(* Import-notification sinks.                                               *)

\* the sinks after one notification of h, each on its own: the closed ones
\* are gone, the ones with room hold h as their newest hash, the full ones
\* are as they were
Notified(before, h) ==
    LET Each(open) ==
            [k \in DOMAIN open |->
                IF Len(open[k].buf) < SinkBuffer
                THEN [open |-> TRUE, buf |-> open[k].buf \o <<h>>]
                ELSE open[k]]
    IN  Each(SelectSeq(before, LAMBDA x : x.open))

\* submit_one imported the i-th verdict of the batch as Ready
ReadyImport(i) ==
    /\ last.raw[i].ok
    /\ Import(last.steps[i].pool, last.batch[i].tx).kind = "Ready"

\* C14: a Ready import of submit_one handles every sink on its own (room:
\* the hash is sent and the sink kept; full: nothing sent, sink kept; closed:
\* sink removed); any other outcome leaves the sinks alone.
C14_SinksIndependent ==
    Called("submit") =>
        \A i \in DOMAIN last.batch :
            last.steps[i + 1].sinks =
                IF ReadyImport(i) THEN Notified(last.steps[i].sinks, last.batch[i].hash)
                ELSE last.steps[i].sinks

\* a Ready import with a full sink next to one with room or a closed one,
\* and a Future import with a closed sink registered
C14_Witness ==
    /\ Called("submit")
    /\ \E i, j \in DOMAIN last.batch :
        /\ ReadyImport(i)
        /\ \E k, n \in DOMAIN last.steps[i].sinks :
            /\ last.steps[i].sinks[k].open
            /\ Len(last.steps[i].sinks[k].buf) = SinkBuffer
            /\ \/ ~last.steps[i].sinks[n].open
               \/ Len(last.steps[i].sinks[n].buf) < SinkBuffer
        /\ last.raw[j].ok /\ ~ReadyImport(j)
        /\ \E k \in DOMAIN last.steps[j].sinks : ~last.steps[j].sinks[k].open

\* the hashes that are ready after the call and were not before
NewlyReady == HashesOf(pool.ready) \ HashesOf(last.pre.pool.ready)

\* what the k-th sink has taken during the call
Taken(k) == SubSeq(sinks[k].buf, Len(last.pre.sinks[k].buf) + 1, Len(sinks[k].buf))

\* the room the k-th sink had when the call started
Room(k) == SinkBuffer - Len(last.pre.sinks[k].buf)

\* C13, as stated: a sink that was never full during the call has taken the
\* hash of every transaction that newly became ready, however it became ready.
C13_ReadyAnnounced ==
    ~Called("none") =>
        \A k \in DOMAIN last.pre.sinks :
            Len(sinks[k].buf) < SinkBuffer => NewlyReady \subseteq Range(Taken(k))

\* the hashes submit imported directly as Ready, in the order of the batch
Direct ==
    LET RECURSIVE From(_)
        From(i) ==
            IF i > Len(last.batch) THEN <<>>
            ELSE (IF ReadyImport(i) THEN <<last.batch[i].hash>> ELSE <<>>) \o From(i + 1)
    IN  From(1)

Least(a, b) == IF a <= b THEN a ELSE b

\* C13: only submit_one announces, and only the hash it has itself imported
\* as Ready: every open sink takes these hashes as far as it has room;
\* transactions promoted by an import or by prune_tags and transactions
\* imported again by resubmit are not announced.
C13_DirectImportsAnnounced ==
    /\ Called("submit") =>
        \A k \in DOMAIN last.pre.sinks :
            Taken(k) = SubSeq(Direct, 1, Least(Room(k), Len(Direct)))
    /\ (Called("prune_tags") \/ Called("resubmit")) => sinks = last.pre.sinks

\* prune_tags promotes a transaction while a sink has room for its hash
C13_Witness ==
    /\ Called("prune_tags")
    /\ last.status.promoted # <<>>
    /\ NewlyReady # {}
    /\ \E k \in DOMAIN sinks : sinks[k].open /\ Room(k) > 0

-----------------------------------------------------------------------------
(* The import notification and the ready event of one import.               *)

\* C15, as stated: when a consumer reads h from a stream, ready(h) has been
\* dispatched.
C15_ReadyBeforeObservable ==
    Called("receive") => Ev("ready", last.hash) \in Range(events)

\* submit_one is through with the i-th element of thread t
Published(t, i) == i < Len(thr[t].raw) \/ thr[t].pc \notin {"publish", "fire"}

\* thread t has imported h
ImportedBy(t, h) ==
    \E i \in DOMAIN thr[t].raw : thr[t].raw[i].ok /\ thr[t].raw[i].hash = h

\* C15: a hash is observable on a stream only after its import, and the
\* event of the import (ready(h) or future(h)) is dispatched before submit_one
\* returns; the hash may be read from the stream before ready(h) is
\* dispatched.
C15_ReadyBeforeReturn ==
    /\ \A k \in DOMAIN sinks : \A h \in Range(sinks[k].buf) :
           \E t \in Threads : ImportedBy(t, h)
    /\ Called("receive") => \E t \in Threads : ImportedBy(t, last.hash)
    /\ \A t \in Threads : \A i \in DOMAIN thr[t].raw :
           (thr[t].raw[i].ok /\ Published(t, i)) =>
               \/ Ev("ready", thr[t].raw[i].hash) \in Range(events)
               \/ Ev("future", thr[t].raw[i].hash) \in Range(events)

\* a consumer has read the hash of an import whose submit_one has not yet
\* dispatched ready(h)
C15_Witness ==
    /\ Called("receive")
    /\ \E t \in Threads :
        /\ thr[t].pc = "fire"
        /\ thr[t].imp.hash = last.hash
        /\ Ev("ready", last.hash) \notin Range(events)

-----------------------------------------------------------------------------
(* Lock order.                                                              *)

\* base pool -> event dispatcher -> import-sinks -> rotator
Rank(l) ==
    CASE l = "pool" -> 1
      [] l = "dispatcher" -> 2
      [] l = "sinks" -> 3
      [] OTHER -> 4

\* every thread holds its locks in the order of their ranks
LocksOrdered ==
    \A t \in Threads : \A i, j \in DOMAIN thr[t].held :
        i < j => Rank(thr[t].held[i].l) < Rank(thr[t].held[j].l)

LocksAllReturned == \A t \in Threads : thr[t].pc = "done"

\* C16: locks are nested only in the order pool, dispatcher, sinks, rotator;
\* there is always a thread that can go on until every call has returned,
\* and every call returns.
C16_LockOrder ==
    /\ [](LocksOrdered /\ (LocksAllReturned \/ ENABLED NextLocks))
    /\ <>LocksAllReturned

\* retrigger_notifications holds the pool and the dispatcher while another
\* call waits for one of them
C16_Witness ==
    \E t, u \in Threads :
        /\ t # u
        /\ Len(thr[t].held) = 2
        /\ thr[u].pc = "run" /\ thr[u].todo # <<>>
        /\ Head(thr[u].todo).a = "acq"
        /\ ~Free(u, Head(thr[u].todo).l, Head(thr[u].todo).m)

-----------------------------------------------------------------------------
(* resubmit on a pool that rejects future transactions.                     *)

\* C21: on a pool configured with reject_future_transactions, when resubmit
\* returns the future partition is empty, every transaction cleared from it
\* has final status Dropped and exactly one event, dropped, and the pool
\* rejects future transactions as before the call.
C21_FutureCleared ==
    (Called("resubmit") /\ last.pre.pool.reject_future) =>
        /\ pool.future = <<>>
        /\ pool.reject_future
        /\ \A h \in Range(last.cleared) :
            /\ ~InPool(h)
            /\ last.final[h] = "Dropped"
            /\ EventsFor(h) = <<Ev("dropped", h)>>

\* a dependent re-imported without its provider is cleared from the future
\* queue
C21_Witness ==
    /\ Called("resubmit")
    /\ last.pre.pool.reject_future
    /\ last.cleared # <<>>
    /\ \E h \in Range(last.cleared) : WasReady(h)

-----------------------------------------------------------------------------
(* resubmit_pruned.                                                         *)

\* the hashes resubmit_pruned has to report: the pruned hashes whose
\* resubmission gave an InvalidTransaction error, and the known imported ones
InBlockHashes ==
    {last.pruned_hashes[i] : i \in {j \in DOMAIN last.results :
                                       ~last.results[j].ok
                                       /\ last.results[j].err = "InvalidTransaction"}}
        \cup Range(last.known)

\* the events between those of submit and those of clear_stale
FiredEvents == SubSeq(events, last.submitted + 1, last.fired)

\* C22: resubmit_pruned dispatches in_block(at.hash, h) exactly once for each
\* hash that is known imported or is the pruned hash of a resubmission that
\* gave an InvalidTransaction error, for no other hash, after the events of
\* the submission and before those of clear_stale(at), which leaves no stale
\* transaction in the pool.
C22_InBlockOnce ==
    Called("resubmit_pruned") =>
        /\ \A h \in Hashes :
               Count(events, EvBy("in_block", h, BlockHash(last.number)))
                   = IF h \in InBlockHashes THEN 1 ELSE 0
        /\ \A i \in DOMAIN events :
               events[i].ev = "in_block" <=> (last.submitted < i /\ i <= last.fired)
        /\ \A i \in DOMAIN events :
               i > last.fired => events[i].ev = "invalid"
        /\ \A i \in DOMAIN pool.ready : ~IsStale(last.number, pool.ready[i])
        /\ \A i \in DOMAIN pool.future : ~IsStale(last.number, pool.future[i])

\* one call with a hash that is both known and the pruned hash of an invalid
\* resubmission, a pruned transaction that failed with another error and is
\* not reported, and a stale transaction cleared at the end
C22_Witness ==
    /\ Called("resubmit_pruned")
    /\ \E i \in DOMAIN last.results :
        /\ IsInvalidTransaction(last.results[i])
        /\ last.pruned_hashes[i] \in Range(last.known)
    /\ \E i \in DOMAIN last.results :
        /\ ~last.results[i].ok /\ ~IsInvalidTransaction(last.results[i])
        /\ last.pruned_hashes[i] \notin InBlockHashes
    /\ Len(events) > last.fired

-----------------------------------------------------------------------------
(* clear_stale.                                                             *)

\* the records of the pool the call started with that are beyond their
\* longevity at block last.number
StaleBefore ==
    {r \in Range(last.pre.pool.ready) \cup Range(last.pre.pool.future) :
        r.valid_till < last.number}

\* C23: after clear_stale(at) no transaction with valid_till < at.number is
\* left in ready or future, every transaction found stale is banned, and
\* invalid(h) is dispatched, once, for every record removed: the stale ones
\* and the dependents removed with them; nothing else is dispatched.
C23_StaleCleared ==
    Called("clear_stale") =>
        /\ \A r \in Range(pool.ready) \cup Range(pool.future) :
               ~(r.valid_till < last.number)
        /\ \A r \in StaleBefore : r.hash \in banned /\ r.hash \in Gone
        /\ \A h \in Gone : Times("invalid", h) = 1
        /\ \A i \in DOMAIN events : events[i].ev = "invalid" /\ events[i].h \in Gone

\* a stale ready transaction and a stale future one cleared by one call
C23_Witness ==
    /\ Called("clear_stale")
    /\ \E r \in Range(last.pre.pool.ready) : r \in StaleBefore
    /\ \E r \in Range(last.pre.pool.future) : r \in StaleBefore
    /\ \A r \in StaleBefore : r.hash \in banned \ last.pre.banned

-----------------------------------------------------------------------------
(* remove_invalid.                                                          *)

\* the records of the pool the call started with
RecordsBefore == Range(last.pre.pool.ready) \cup Range(last.pre.pool.future)

\* C24: remove_invalid(hashes) with a non-empty list bans exactly the given
\* hashes, in the pool or not, and none of the dependents removed with them;
\* the named records and their dependents leave the pool, invalid(h) is
\* dispatched exactly once for every record removed, and those records are
\* returned; with an empty list it returns empty and changes nothing.
C24_RemoveInvalid ==
    Called("remove_invalid") =>
        IF last.hashes = {}
        THEN /\ last.removed = <<>>
             /\ World = last.pre
             /\ events = <<>>
        ELSE /\ banned = last.pre.banned \cup last.hashes
             /\ \A h \in last.hashes : ~InPool(h)
             /\ \A r \in Range(pool.ready), g \in Range(last.pre.pool.ready) :
                    g.hash \in Gone => r.requires \cap g.provides = {}
             /\ Range(last.removed) = {r \in RecordsBefore : r.hash \in Gone}
             /\ Len(last.removed) = Cardinality(Gone)
             /\ \A h \in Gone : Times("invalid", h) = 1
             /\ Len(events) = Cardinality(Gone)
             /\ \A r \in Range(pool.ready) \cup Range(pool.future) : r \in RecordsBefore

\* a call that names a hash which is not in the pool and one whose dependent
\* is removed with it and not banned
C24_Witness ==
    /\ Called("remove_invalid")
    /\ \E h \in last.hashes :
           h \notin HashesOf(last.removed) /\ h \in banned \ last.pre.banned
    /\ \E h \in Gone : h \notin last.hashes /\ h \notin banned

-----------------------------------------------------------------------------
(* check_is_known.                                                          *)

\* C25: check_is_known(hash, ignore_banned) returns TemporarilyBanned when
\* ignore_banned is false and the hash is banned, imported or not; otherwise
\* AlreadyImported(hash) when the hash is in the pool; otherwise Ok.  With
\* ignore_banned a banned hash that is not in the pool gives Ok.  The call
\* changes no state.
C25_CheckIsKnown ==
    Called("check_is_known") =>
        /\ (~last.ignore_banned /\ last.hash \in banned) =>
               ~last.result.ok /\ last.result.err = "TemporarilyBanned"
        /\ ((last.ignore_banned \/ last.hash \notin banned) /\ InPool(last.hash)) =>
               /\ ~last.result.ok
               /\ last.result.err = "AlreadyImported"
               /\ last.result.hash = last.hash
        /\ ((last.ignore_banned \/ last.hash \notin banned) /\ ~InPool(last.hash)) =>
               last.result.ok
        /\ World = last.pre

\* the hash is banned and imported at once and the ban is not ignored
C25_Witness ==
    /\ Called("check_is_known")
    /\ ~last.ignore_banned
    /\ last.hash \in banned
    /\ InPool(last.hash)
    /\ last.result.err = "TemporarilyBanned"

-----------------------------------------------------------------------------
(* One record per hash.                                                     *)

\* no hash occurs twice in the sequence of records s
Distinct(s) == \A i, j \in DOMAIN s : s[i].hash = s[j].hash => i = j

\* each hash of the pool p is in one partition, once
Partitioned(p) ==
    /\ Distinct(p.ready)
    /\ Distinct(p.future)
    /\ HashesOf(p.ready) \cap HashesOf(p.future) = {}

\* element i of the submitted batch carries a hash that is in the pool when
\* its turn comes
Resubmitted(i) == IsImported(last.steps[i].pool, last.batch[i].hash)

\* element i is refused by the validator gate, which comes before the import
Gated(i) == ~last.batch[i].tx.propagate /\ ~last.isv

\* C26, as stated: each hash of the pool is in exactly one partition, once,
\* and the submission of a hash that is present is rejected with
\* AlreadyImported and changes nothing.
C26_OneRecordPerHash ==
    /\ Partitioned(pool)
    /\ Called("submit") =>
           \A i \in DOMAIN last.batch :
               Resubmitted(i) =>
                   /\ last.results[i] = Err("AlreadyImported")
                   /\ Untouched(i)

\* C26: each hash of the pool is in exactly one partition, once, and the
\* submission of a hash that is present is rejected and changes nothing:
\* with Unactionable if the transaction does not propagate and the node is
\* not a validator at that moment, with AlreadyImported otherwise.
C26_OneRecordPerHashGated ==
    /\ Partitioned(pool)
    /\ Called("submit") =>
           \A i \in DOMAIN last.batch :
               Resubmitted(i) =>
                   /\ last.results[i] =
                          IF Gated(i) THEN Err("Unactionable") ELSE Err("AlreadyImported")
                   /\ Untouched(i)

\* the pool holds a record for the hash that differs from the submitted one,
\* and keeps it
C26_Witness ==
    /\ Called("submit")
    /\ \E i \in DOMAIN last.batch :
        /\ Resubmitted(i)
        /\ last.results[i] = Err("AlreadyImported")
        /\ \E r \in Range(last.steps[i].pool.ready) :
            /\ r.hash = last.batch[i].hash
            /\ r # last.batch[i].tx
            /\ r \in Range(pool.ready)

-----------------------------------------------------------------------------
(* enforce_limits.                                                          *)

\* the world enforce_limits started in: the one the last element of the
\* batch left
BeforeLimits == last.steps[Len(last.batch) + 1]

\* the hashes that left the pool while the limits were enforced
EvictedHashes ==
    (HashesOf(BeforeLimits.pool.ready) \cup HashesOf(BeforeLimits.pool.future))
        \ (HashesOf(pool.ready) \cup HashesOf(pool.future))

\* the positions of the events of kind e for hash h
Positions(e, h) == {i \in DOMAIN events : events[i].ev = e /\ events[i].h = h}

\* C27: enforce_limits bans every hash the base pool evicts, dispatches
\* limits_enforced(h) exactly once for each and returns exactly those hashes;
\* when neither partition exceeds its cap it returns nothing and leaves pool,
\* ban list and event history as they are.  For an evicted hash imported by
\* the same batch, ready(h) or future(h) comes before limits_enforced(h).
C27_EnforceLimits ==
    (Called("submit") /\ last.enforced) =>
        IF ~LimitsExceeded(BeforeLimits)
        THEN /\ last.removed = <<>>
             /\ World = [BeforeLimits EXCEPT !.events = <<>>]
             /\ events = BeforeLimits.events
        ELSE /\ Range(last.removed) = EvictedHashes
             /\ Len(last.removed) = Cardinality(EvictedHashes)
             /\ EvictedHashes # {}
             /\ banned = BeforeLimits.banned \cup EvictedHashes
             /\ SubSeq(events, 1, Len(BeforeLimits.events)) = BeforeLimits.events
             /\ Len(events) = Len(BeforeLimits.events) + Cardinality(EvictedHashes)
             /\ \A i \in DOMAIN events :
                    i > Len(BeforeLimits.events) => events[i].ev = "limits_enforced"
             /\ \A h \in EvictedHashes : Times("limits_enforced", h) = 1
             /\ \A h \in EvictedHashes :
                    (\E i \in DOMAIN last.raw : last.raw[i].ok /\ last.raw[i].hash = h) =>
                        \E j \in Positions("ready", h) \cup Positions("future", h) :
                            \A k \in Positions("limits_enforced", h) : j < k

\* a batch whose import is evicted at once, next to an evicted transaction
\* that was in the pool before the call
C27_Witness ==
    /\ Called("submit")
    /\ last.enforced
    /\ \E h \in EvictedHashes :
        /\ \E i \in DOMAIN last.raw : last.raw[i].ok /\ last.raw[i].hash = h
        /\ Positions("ready", h) \cup Positions("future", h) # {}
        /\ h \in banned \ last.pre.banned
    /\ \E h \in EvictedHashes : IsImported(last.pre.pool, h)

-----------------------------------------------------------------------------
(* fire_events.                                                             *)

\* the events element i of the batch added to the history
StepEvents(i) ==
    SubSeq(last.steps[i + 1].events, Len(last.steps[i].events) + 1,
           Len(last.steps[i + 1].events))

\* what the base pool answered to the import of element i
ImportedAt(i) == Import(last.steps[i].pool, last.batch[i].tx)

\* the events in the order ready, invalid, usurped, ready
InOrder(hash, failed, removed, promoted) ==
    <<[ev |-> "ready", h |-> hash, by |-> 0]>>
        \o [k \in DOMAIN failed |-> [ev |-> "invalid", h |-> failed[k], by |-> 0]]
        \o [k \in DOMAIN removed |-> [ev |-> "usurped", h |-> removed[k].hash, by |-> hash]]
        \o [k \in DOMAIN promoted |-> [ev |-> "ready", h |-> promoted[k], by |-> 0]]

\* C28: for an import that ends Ready{hash, promoted, failed, removed} the
\* events are ready(hash), then invalid(f) for each failed hash, then
\* usurped(r.hash, hash) for each removed record, then ready(p) for each
\* promoted hash; for an import that ends Future{hash} the one event
\* future(hash) is dispatched and nothing else.
C28_FireEventsOrder ==
    Called("submit") =>
        \A i \in DOMAIN last.batch :
            last.raw[i].ok =>
                LET Expected(imp) ==
                        IF imp.kind = "Future"
                        THEN <<[ev |-> "future", h |-> imp.hash, by |-> 0]>>
                        ELSE InOrder(imp.hash, imp.failed, imp.removed, imp.promoted)
                IN  StepEvents(i) = Expected(ImportedAt(i))

\* one batch with an import that usurps a record and fails its descendant,
\* and an import that promotes a waiting transaction
C28_Witness ==
    /\ Called("submit")
    /\ \E i \in DOMAIN last.batch :
        /\ last.raw[i].ok
        /\ ImportedAt(i).failed # <<>>
        /\ ImportedAt(i).removed # <<>>
        /\ Len(StepEvents(i)) >= 3
    /\ \E i \in DOMAIN last.batch :
        /\ last.raw[i].ok
        /\ ImportedAt(i).promoted # <<>>

-----------------------------------------------------------------------------
(* resubmit: a dependent re-imported before its provider.                   *)

\* the pool once the updated transactions and their dependents are removed,
\* with future transactions permitted
Emptied ==
    [RemoveUpdated([pool |-> last.pre.pool, updated |-> last.updated,
                    initial |-> <<>>, todo |-> <<>>, final |-> <<>>, rounds |-> 0,
                    cleared |-> <<>>]).pool EXCEPT !.reject_future = FALSE]

\* the pool the k-th queued verdict meets
PoolAt(k) ==
    Reimport([pool |-> Emptied, final |-> <<>>], SubSeq(last.todo, 1, k - 1)).pool

\* the answer of the base pool to the k-th queued verdict
ReimportAt(k) == Import(PoolAt(k), last.todo[k].tx)

\* the k-th queued verdict is valid and requires a tag nothing provides yet
Early(k) ==
    /\ last.todo[k].kind = "Valid"
    /\ ~Satisfied(PoolAt(k), last.todo[k].tx)

\* the re-import of the k-th queued verdict takes the record of h out of the
\* pool again
TakesOut(k, h) ==
    /\ last.todo[k].kind = "Valid"
    /\ h \in HashesOf(ReimportAt(k).removed) \cup Range(ReimportAt(k).failed)

\* the j-th queued verdict provides what the earlier i-th one waits for
Unlocks(j, i) ==
    /\ i < j
    /\ Early(i)
    /\ last.todo[j].kind = "Valid"
    /\ ReimportAt(j).ok
    /\ last.todo[i].hash \in Range(ReimportAt(j).promoted)

\* C29: during resubmit a transaction that is re-imported before the provider
\* of its required tag is not rejected but waits in the future partition,
\* also on a pool configured with reject_future_transactions; it is promoted
\* when its provider is re-imported and, unless a later re-import takes it
\* out again, is ready when the call returns.
C29_DependentWaits ==
    Called("resubmit") =>
        /\ \A i \in DOMAIN last.todo :
               Early(i) => ReimportAt(i).ok /\ ReimportAt(i).kind = "Future"
        /\ \A i, j \in DOMAIN last.todo :
               (/\ Unlocks(j, i)
                /\ \A k \in DOMAIN last.todo : k > j => ~TakesOut(k, last.todo[i].hash))
                   => /\ last.todo[i].hash \in HashesOf(pool.ready)
                      /\ last.final[last.todo[i].hash] = "Ready"
                      /\ last.todo[i].hash \notin Range(last.cleared)
                      /\ Times("dropped", last.todo[i].hash) = 0

\* on a pool that rejects future transactions, a dependent queued before its
\* provider is ready again when resubmit returns
C29_Witness ==
    /\ Called("resubmit")
    /\ last.pre.pool.reject_future
    /\ \E i, j \in DOMAIN last.todo :
        /\ Unlocks(j, i)
        /\ last.todo[i].hash \in HashesOf(pool.ready)
        /\ last.final[last.todo[i].hash] = "Ready"

-----------------------------------------------------------------------------
(* resubmit: verdicts that fail.                                            *)

\* the k-th queued verdict cannot be imported: it is Invalid or Unknown, or
\* the base pool refuses it
FailsAt(k) == last.todo[k].kind # "Valid" \/ ~ReimportAt(k).ok

\* C30: in resubmit a removed transaction whose replacement verdict is Invalid
\* or Unknown, or whose re-import the base pool refuses, gets final status
\* Failed: it is not in the pool when resubmit returns and invalid(h), and
\* nothing else, is dispatched for it.  The verdicts queued after it are
\* re-imported all the same: each gets a final status, and the ones the base
\* pool accepts are in the pool unless a later re-import or the clearing of
\* the future queue takes them out.
C30_FailedReimport ==
    Called("resubmit") =>
        /\ \A k \in DOMAIN last.todo :
               FailsAt(k) =>
                   /\ last.final[last.todo[k].hash] = "Failed"
                   /\ ~InPool(last.todo[k].hash)
                   /\ EventsFor(last.todo[k].hash) = <<Ev("invalid", last.todo[k].hash)>>
        /\ \A k \in DOMAIN last.todo : last.todo[k].hash \in DOMAIN last.final
        /\ \A k \in DOMAIN last.todo :
               (/\ ~FailsAt(k)
                /\ \A n \in DOMAIN last.todo : n > k => ~TakesOut(n, last.todo[k].hash)
                /\ last.todo[k].hash \notin Range(last.cleared))
                   => InPool(last.todo[k].hash)

\* a verdict that fails, with its invalid event, followed in the queue by a
\* transaction that is imported again
C30_Witness ==
    /\ Called("resubmit")
    /\ \E k, n \in DOMAIN last.todo :
        /\ k < n
        /\ FailsAt(k)
        /\ Times("invalid", last.todo[k].hash) = 1
        /\ ~FailsAt(n)
        /\ InPool(last.todo[n].hash)

-----------------------------------------------------------------------------
(* resubmit: a transaction that waits before and after.                     *)

\* h is in the future partition when the call starts and when it returns
StaysFuture(h) ==
    /\ h \in HashesOf(last.pre.pool.future)
    /\ h \in HashesOf(pool.future)

\* C31, as stated: a transaction that is in the future partition before
\* resubmit and in the future partition again after it receives no event from
\* the call.
C31_FutureStaysSilent ==
    Called("resubmit") =>
        \A h \in Hashes : StaysFuture(h) => EventsFor(h) = <<>>

\* C31: a transaction that is in the future partition before resubmit and
\* after it receives no event from the call if the call did not take it out
\* of the pool; if the call removed it and imported it again, its initial
\* status is recorded as Ready and exactly one event, future(h), is dispatched.
C31_FutureAnnouncedAgain ==
    Called("resubmit") =>
        \A h \in Hashes :
            StaysFuture(h) =>
                IF h \in DOMAIN last.initial
                THEN /\ last.initial[h] = "Ready"
                     /\ EventsFor(h) = <<Ev("future", h)>>
                ELSE EventsFor(h) = <<>>

\* a waiting transaction named in the updated map is imported into future
\* again and future(h) is dispatched
C31_Witness ==
    /\ Called("resubmit")
    /\ \E h \in DOMAIN last.initial :
        /\ StaysFuture(h)
        /\ last.final[h] = "Future"
        /\ EventsFor(h) = <<Ev("future", h)>>

-----------------------------------------------------------------------------
(* C32: the order of the events of a hash under concurrent calls.           *)

\* thread t has imported h as ready and has not dispatched ready(h) yet
PendingReady(t, h) ==
    /\ thr[t].pc \in {"publish", "fire"}
    /\ thr[t].imp.kind = "Ready"
    /\ thr[t].imp.hash = h

\* thread r has removed h in its remove_invalid
RemovedBy(r, h) ==
    /\ thr[r].pc \in {"invalid", "done"}
    /\ \E i \in DOMAIN thr[r].removed : thr[r].removed[i] = h

\* thread r has dispatched invalid(h) for its removal of h
InvalidDispatched(r, h) ==
    /\ RemovedBy(r, h)
    /\ \E i \in DOMAIN thr[r].removed : thr[r].removed[i] = h /\ i < thr[r].idx

\* h was imported by t and then removed by r: t makes no step between its
\* import and its fire_events, so that h is out of the pool only when the
\* removal came after the import
ImportedThenRemoved(t, r, h) ==
    /\ t # r
    /\ PendingReady(t, h)
    /\ RemovedBy(r, h)
    /\ ~InPool(h)

\* C32 as stated: when a submit has imported h and a remove_invalid of
\* another thread has then removed h, invalid(h) is not dispatched while
\* ready(h) is still to be dispatched.
C32_ReadyBeforeTerminal ==
    \A t \in Threads, r \in Threads, h \in Hashes :
        ImportedThenRemoved(t, r, h) => ~InvalidDispatched(r, h)

\* C32: the events are dispatched in the order in which the threads take the
\* lock of the dispatcher, each thread after its own change of the pool:
\* every step keeps the events dispatched so far, fire_events of a ready
\* import dispatches ready(h) behind them, the removal itself dispatches
\* nothing and each invalid event is dispatched in a later step of its own.
C32_DispatchedInLockOrder ==
    [][\A t \in Threads :
        /\ Len(events') >= Len(events)
        /\ SubSeq(events', 1, Len(events)) = events
        /\ (thr[t].pc = "fire" /\ thr'[t] # thr[t] /\ thr[t].imp.kind = "Ready")
            => /\ Len(events') > Len(events)
               /\ events'[Len(events) + 1] = Ev("ready", thr[t].imp.hash)
        /\ (thr[t].pc = "remove" /\ thr'[t] # thr[t])
            => events' = events
        /\ (thr[t].pc = "invalid" /\ thr'[t] # thr[t])
            => events' = Append(events, Ev("invalid", thr[t].removed[thr[t].idx]))]_vars

\* h was imported by a submit of one element, removed by the remove_invalid
\* of the other thread, and invalid(h) was dispatched before ready(h)
C32_Witness ==
    \E t \in Threads, r \in Threads, h \in Hashes :
        /\ t # r
        /\ Len(thr[t].batch) = 1
        /\ thr[t].pc = "done"
        /\ thr[t].results[1].ok
        /\ thr[t].results[1].hash = h
        /\ RemovedBy(r, h)
        /\ ~InPool(h)
        /\ EventsFor(h) = <<Ev("invalid", h), Ev("ready", h)>>

-----------------------------------------------------------------------------
(* C33: the Ok results of submit and the pool it leaves.                    *)

\* the import of element j of the batch took h out of the pool, as replaced
\* (usurped) or as failed with it (invalid)
TakenOutBy(j, h) ==
    /\ last.raw[j].ok
    /\ IsImported(last.steps[j].pool, h)
    /\ ~IsImported(last.steps[j + 1].pool, h)
    /\ \/ EvBy("usurped", h, last.raw[j].hash) \in Range(events)
       \/ Ev("invalid", h) \in Range(events)

\* C33 as stated: every element whose result is Ok is in the pool, ready or
\* future, when submit returns.
C33_OkIsPresent ==
    Called("submit") =>
        \A i \in DOMAIN last.batch :
            last.results[i].ok => InPool(last.results[i].hash)

\* C33: an element whose result is Ok was imported by its own submit_one and
\* was not evicted by enforce_limits; it is in the pool when submit returns
\* unless the import of a later element of the batch took it out, and such
\* an element keeps its Ok result.
C33_OkUnlessTakenOut ==
    Called("submit") =>
        \A i \in DOMAIN last.batch :
            /\ last.results[i].ok =>
                /\ IsImported(last.steps[i + 1].pool, last.results[i].hash)
                /\ last.results[i].hash \notin Range(last.removed)
                /\ \/ InPool(last.results[i].hash)
                   \/ \E j \in (i + 1)..Len(last.batch) :
                        TakenOutBy(j, last.results[i].hash)
            /\ (last.raw[i].ok /\ last.raw[i].hash \notin Range(last.removed)) =>
                last.results[i].ok

\* an element is reported Ok and a later element of the batch has replaced it
C33_Witness ==
    /\ Called("submit")
    /\ \E i \in DOMAIN last.batch :
        /\ last.results[i].ok
        /\ ~InPool(last.results[i].hash)
        /\ \E j \in (i + 1)..Len(last.batch) :
            /\ TakenOutBy(j, last.results[i].hash)
            /\ InPool(last.raw[j].hash)

====
